---- MODULE Spec2Model ----
(***************************************************************************)
(* Model of the KOKO veterinary chatbot backend: the booking dialogue      *)
(* state machine (ChatService / AppointmentService.processBookingFlow),    *)
(* the conversation store (Conversation model, ConversationService) and    *)
(* the appointment store operations (AppointmentService, Appointment       *)
(* model).                                                                 *)
(*                                                                         *)
(* Texts are sequences of one-character strings, so that trim(),           *)
(* toLowerCase(), includes() and the regular expressions of the source are *)
(* computed character by character.  A calendar date is a triple           *)
(* <<year, month, day>>; the JavaScript null is the empty tuple.           *)
(* Every `await` on the store is one step of the process that runs the     *)
(* handler; a store call may throw (fault injection) where the             *)
(* specification allows it.                                                *)
(***************************************************************************)
EXTENDS Integers, Sequences, FiniteSets, TLC

VARIABLES
    conversations,  \* Conversation collection: sessionId -> document
    appointments,   \* Appointment collection: _id -> document
    nextId,         \* next _id the appointment store hands out
    procs,          \* the request handlers in flight: position and locals
    turns,          \* number of requests started so far
    faults,         \* number of store failures injected so far
    sent            \* history: per session, the text the client sent for
                    \* each field of the dialogue in progress

vars == <<conversations, appointments, nextId, procs, turns, faults, sent>>

-----------------------------------------------------------------------------
(* Bounds of the model *)

MaxTurns == 7
MaxFaults == 1
MaxAppointments == 2

-----------------------------------------------------------------------------
(* Characters and strings *)

Null == <<>>

UpperCase == <<"A","B","C","D","E","F","G","H","I","J","K","L","M",
               "N","O","P","Q","R","S","T","U","V","W","X","Y","Z">>
LowerCase == <<"a","b","c","d","e","f","g","h","i","j","k","l","m",
               "n","o","p","q","r","s","t","u","v","w","x","y","z">>
Digits == <<"0","1","2","3","4","5","6","7","8","9">>

Range(f) == { f[i] : i \in DOMAIN f }

IsDigit(c) == c \in Range(Digits)
IsLetter(c) == c \in Range(UpperCase) \cup Range(LowerCase)
IsSpace(c) == c \in {" ", "\t", "\n", "\r"}
IsWordChar(c) == IsDigit(c) \/ IsLetter(c) \/ c = "_"

DigitValue(c) == (CHOOSE i \in 1..10 : Digits[i] = c) - 1

LowerChar(c) ==
    IF c \in Range(UpperCase)
    THEN LowerCase[CHOOSE i \in 1..26 : UpperCase[i] = c]
    ELSE c

UpperChar(c) ==
    IF c \in Range(LowerCase)
    THEN UpperCase[CHOOSE i \in 1..26 : LowerCase[i] = c]
    ELSE c

toLowerCase(s) == [i \in 1..Len(s) |-> LowerChar(s[i])]
toUpperCase(s) == [i \in 1..Len(s) |-> UpperChar(s[i])]

\* String.prototype.trim
trim(s) ==
    IF \A i \in 1..Len(s) : IsSpace(s[i])
    THEN <<>>
    ELSE LET first == CHOOSE i \in 1..Len(s) :
                         ~IsSpace(s[i]) /\ \A j \in 1..(i-1) : IsSpace(s[j])
             last == CHOOSE i \in 1..Len(s) :
                         ~IsSpace(s[i]) /\ \A j \in (i+1)..Len(s) : IsSpace(s[j])
         IN SubSeq(s, first, last)

\* kw occurs in s starting at position i
OccursAt(s, kw, i) ==
    /\ i >= 1
    /\ i + Len(kw) - 1 <= Len(s)
    /\ \A k \in 1..Len(kw) : s[i + k - 1] = kw[k]

\* String.prototype.includes
includes(s, kw) == \E i \in 1..(Len(s) + 1) : OccursAt(s, kw, i)

\* s.replace(/[\s\-\.\(\)]/g, '')
stripSeparators(s) ==
    SelectSeq(s, LAMBDA c : ~(IsSpace(c) \/ c \in {"-", ".", "(", ")"}))

\* parseInt of a string of digits
RECURSIVE parseInt(_)
parseInt(s) ==
    IF s = <<>> THEN 0
    ELSE 10 * parseInt(SubSeq(s, 1, Len(s) - 1)) + DigitValue(s[Len(s)])

\* String(n).padStart(2, '0') for 0 <= n
RECURSIVE numberToString(_)
numberToString(n) ==
    IF n < 10 THEN <<Digits[n + 1]>>
    ELSE numberToString(n \div 10) \o <<Digits[(n % 10) + 1]>>

padStart2(n) ==
    IF n < 10 THEN <<"0">> \o numberToString(n) ELSE numberToString(n)

\* a run of exactly n digits of s starts at position i
DigitsAt(s, i, n) ==
    /\ i >= 1
    /\ i + n - 1 <= Len(s)
    /\ \A k \in i..(i + n - 1) : IsDigit(s[k])

\* the regular expression assertion \b between s[j-1] and s[j]
WordBoundary(s, j) ==
    LET before == j - 1 >= 1 /\ j - 1 <= Len(s) /\ IsWordChar(s[j - 1])
        after == j >= 1 /\ j <= Len(s) /\ IsWordChar(s[j])
    IN before # after

\* A pattern is a sequence of items [chars, min, max]: between min and max
\* characters of the set chars.  MatchFrom: s from position i on matches the
\* items k.. of the pattern up to the end of s (an anchored RegExp.test).
RECURSIVE MatchFrom(_, _, _, _)
MatchFrom(s, i, pat, k) ==
    IF k > Len(pat) THEN i = Len(s) + 1
    ELSE \E n \in pat[k].min..pat[k].max :
            /\ i + n - 1 <= Len(s)
            /\ \A j \in i..(i + n - 1) : s[j] \in pat[k].chars
            /\ MatchFrom(s, i + n, pat, k + 1)

-----------------------------------------------------------------------------
(* config/constants *)

IDLE == "idle"
COLLECTING_OWNER_NAME == "collecting_owner_name"
COLLECTING_PET_NAME == "collecting_pet_name"
COLLECTING_PHONE == "collecting_phone"
COLLECTING_DATE_TIME == "collecting_date_time"
CONFIRMING == "confirming"
COMPLETED == "completed"

BOOKING_STATES ==
    {IDLE, COLLECTING_OWNER_NAME, COLLECTING_PET_NAME, COLLECTING_PHONE,
     COLLECTING_DATE_TIME, CONFIRMING, COMPLETED}

APPOINTMENT_STATUS == {"pending", "confirmed", "cancelled", "completed", "no-show"}

START_HOUR == 9
END_HOUR == 18
SLOT_DURATION == 30
BREAK_START == 13
BREAK_END == 14

OPERATING_DAYS == {1, 2, 3, 4, 5, 6}

NAME_MIN_LENGTH == 2
NAME_MAX_LENGTH == 100

DigitSet == Range(Digits)
SeparatorSet == {"-", ".", " ", "\t", "\n", "\r"}

\* VALIDATION.PHONE_REGEX
PHONE_REGEX == <<
    [chars |-> {"+"}, min |-> 0, max |-> 1],
    [chars |-> {"("}, min |-> 0, max |-> 1],
    [chars |-> DigitSet, min |-> 1, max |-> 3],
    [chars |-> {")"}, min |-> 0, max |-> 1],
    [chars |-> SeparatorSet, min |-> 0, max |-> 1],
    [chars |-> DigitSet, min |-> 1, max |-> 4],
    [chars |-> SeparatorSet, min |-> 0, max |-> 1],
    [chars |-> DigitSet, min |-> 1, max |-> 4],
    [chars |-> SeparatorSet, min |-> 0, max |-> 1],
    [chars |-> DigitSet, min |-> 1, max |-> 9] >>

\* /^\+?\d+$/.test(s)
IsPlusDigits(s) ==
    LET body == IF s # <<>> /\ Head(s) = "+" THEN Tail(s) ELSE s
    IN body # <<>> /\ \A i \in 1..Len(body) : IsDigit(body[i])

APPOINTMENT_KEYWORDS == <<
    <<"b","o","o","k">>,
    <<"a","p","p","o","i","n","t","m","e","n","t">>,
    <<"s","c","h","e","d","u","l","e">>,
    <<"v","i","s","i","t">>,
    <<"s","e","e"," ","a"," ","v","e","t">>,
    <<"s","e","e"," ","t","h","e"," ","v","e","t">>,
    <<"s","e","e"," ","d","o","c","t","o","r">>,
    <<"s","e","e"," ","a"," ","d","o","c","t","o","r">>,
    <<"m","a","k","e"," ","a","n"," ","a","p","p","o","i","n","t","m","e","n","t">>,
    <<"b","o","o","k"," ","a"," ","v","e","t">>,
    <<"v","e","t"," ","a","p","p","o","i","n","t","m","e","n","t">>,
    <<"v","e","t","e","r","i","n","a","r","y"," ","a","p","p","o","i","n","t","m","e","n","t">>,
    <<"c","h","e","c","k","u","p">>,
    <<"c","h","e","c","k"," ","u","p">>,
    <<"c","o","n","s","u","l","t","a","t","i","o","n">>,
    <<"r","e","s","e","r","v","e">>,
    <<"s","e","t"," ","u","p"," ","a","p","p","o","i","n","t","m","e","n","t">>,
    <<"a","r","r","a","n","g","e"," ","a","p","p","o","i","n","t","m","e","n","t">>
>>

-----------------------------------------------------------------------------
(* The clock and the calendar (JavaScript Date, one implicit time zone) *)

\* new Date(): the current day, and the current time of day in minutes
Today == <<2026, 1, 29>>
NowMinutes == 480

\* days since 1970-01-01 of the civil date y-m-d (d may overflow the month)
DaysFromCivil(y, m, d) ==
    LET yy == IF m <= 2 THEN y - 1 ELSE y
        era == yy \div 400
        yoe == yy - era * 400
        mp == IF m > 2 THEN m - 3 ELSE m + 9
        doy == (153 * mp + 2) \div 5 + d - 1
        doe == yoe * 365 + yoe \div 4 - yoe \div 100 + doy
    IN era * 146097 + doe - 719468

CivilFromDays(z0) ==
    LET z == z0 + 719468
        era == z \div 146097
        doe == z - era * 146097
        yoe == (doe - doe \div 1460 + doe \div 36524 - doe \div 146096) \div 365
        doy == doe - (365 * yoe + yoe \div 4 - yoe \div 100)
        mp == (5 * doy + 2) \div 153
        d == doy - (153 * mp + 2) \div 5 + 1
        m == IF mp < 10 THEN mp + 3 ELSE mp - 9
        y == yoe + era * 400 + (IF m <= 2 THEN 1 ELSE 0)
    IN <<y, m, d>>

DayNumber(date) == DaysFromCivil(date[1], date[2], date[3])

\* date.setDate(date.getDate() + n)
AddDays(date, n) == CivilFromDays(DayNumber(date) + n)

\* Date.prototype.getDay: 0 = Sunday
getDay(date) == (DayNumber(date) + 4) % 7

\* new Date(year, monthIndex, day): out-of-range months and days carry over,
\* and a year 0..99 means 1900 + year
MakeDate(year, monthIndex, day) ==
    LET y0 == IF year >= 0 /\ year <= 99 THEN 1900 + year ELSE year
        y == y0 + (monthIndex \div 12)
        m == (monthIndex % 12) + 1
    IN CivilFromDays(DaysFromCivil(y, m, 1) + day - 1)

DateBefore(a, b) == DayNumber(a) < DayNumber(b)

\* AIService.formatDate
formatDate(date) ==
    numberToString(date[1]) \o <<"-">> \o padStart2(date[2]) \o <<"-">> \o padStart2(date[3])

\* new Date("YYYY-MM-DD") followed by setHours(0, 0, 0, 0): the day of the
\* string (the process runs at a UTC offset >= 0); Null for an Invalid Date
dateFromString(str) ==
    IF /\ Len(str) = 10
       /\ DigitsAt(str, 1, 4) /\ str[5] = "-"
       /\ DigitsAt(str, 6, 2) /\ str[8] = "-"
       /\ DigitsAt(str, 9, 2)
       /\ parseInt(SubSeq(str, 6, 7)) \in 1..12
       /\ parseInt(SubSeq(str, 9, 10)) \in 1..31
    THEN MakeDate(parseInt(SubSeq(str, 1, 4)),
                  parseInt(SubSeq(str, 6, 7)) - 1,
                  parseInt(SubSeq(str, 9, 10)))
    ELSE Null
-----------------------------------------------------------------------------
(* AIService (rule based): intent detection and date/time extraction *)

\* AIService.detectAppointmentIntent
detectAppointmentIntent(message) ==
    \E k \in DOMAIN APPOINTMENT_KEYWORDS :
        includes(toLowerCase(message), APPOINTMENT_KEYWORDS[k])

DayNames == <<
    <<"s","u","n","d","a","y">>,
    <<"m","o","n","d","a","y">>,
    <<"t","u","e","s","d","a","y">>,
    <<"w","e","d","n","e","s","d","a","y">>,
    <<"t","h","u","r","s","d","a","y">>,
    <<"f","r","i","d","a","y">>,
    <<"s","a","t","u","r","d","a","y">>
>>

monthNames == <<
    <<"j","a","n","u","a","r","y">>,
    <<"f","e","b","r","u","a","r","y">>,
    <<"m","a","r","c","h">>,
    <<"a","p","r","i","l">>,
    <<"m","a","y">>,
    <<"j","u","n","e">>,
    <<"j","u","l","y">>,
    <<"a","u","g","u","s","t">>,
    <<"s","e","p","t","e","m","b","e","r">>,
    <<"o","c","t","o","b","e","r">>,
    <<"n","o","v","e","m","b","e","r">>,
    <<"d","e","c","e","m","b","e","r">>
>>

\* the number of characters of the class at positions i.. of s (a greedy run)
RECURSIVE RunLength(_, _, _)
RunLength(s, i, class) ==
    IF i <= Len(s) /\ s[i] \in class THEN 1 + RunLength(s, i + 1, class) ELSE 0

\* The first element of the set of candidate matches in the order a
\* backtracking matcher tries them: leftmost start, then the larger rank.
FirstMatch(cands) ==
    CHOOSE c \in cands :
        \A o \in cands : c.start < o.start \/ (c.start = o.start /\ c.rank >= o.rank)

\* /\b(\d{1,2})\/(\d{1,2})(?:\/(\d{2,4}))?\b/ : [start, a, b, c] are the start
\* and the lengths of the three groups (c = 0: no year)
slashMatches(s) ==
    { [start |-> i, a |-> a, b |-> b, c |-> c, rank |-> (a * 3 + b) * 5 + c] :
        i \in 1..Len(s), a \in 1..2, b \in 1..2, c \in {0, 2, 3, 4} }

slashMatchOk(s, m) ==
    LET p2 == m.start + m.a + 1
        p3 == p2 + m.b
        end == IF m.c = 0 THEN p3 ELSE p3 + 1 + m.c
    IN /\ WordBoundary(s, m.start)
       /\ DigitsAt(s, m.start, m.a)
       /\ m.start + m.a <= Len(s) /\ s[m.start + m.a] = "/"
       /\ DigitsAt(s, p2, m.b)
       /\ m.c # 0 => (p3 <= Len(s) /\ s[p3] = "/" /\ DigitsAt(s, p3 + 1, m.c))
       /\ WordBoundary(s, end)

\* /\b(\d{1,4})[-.](\d{1,2})[-.](\d{1,4})\b/
dashMatches(s) ==
    { [start |-> i, a |-> a, b |-> b, c |-> c, rank |-> (a * 3 + b) * 5 + c] :
        i \in 1..Len(s), a \in 1..4, b \in 1..2, c \in 1..4 }

dashMatchOk(s, m) ==
    LET p2 == m.start + m.a + 1
        p3 == p2 + m.b + 1
    IN /\ WordBoundary(s, m.start)
       /\ DigitsAt(s, m.start, m.a)
       /\ m.start + m.a <= Len(s) /\ s[m.start + m.a] \in {"-", "."}
       /\ DigitsAt(s, p2, m.b)
       /\ p2 + m.b <= Len(s) /\ s[p2 + m.b] \in {"-", "."}
       /\ DigitsAt(s, p3, m.c)
       /\ WordBoundary(s, p3 + m.c)

CommaOrSpace == {",", " ", "\t", "\n", "\r"}
SpaceSet == {" ", "\t", "\n", "\r"}

\* new RegExp(`${month}\\s+(\\d{1,2})(?:[,\\s]+(\\d{4}))?`, 'i'): the leftmost
\* occurrence of the month name followed by white space and a digit.  The
\* result is [day, year], year = -1 when the optional group does not match.
monthFirstStarts(s, name) ==
    { i \in 1..Len(s) :
        /\ OccursAt(toLowerCase(s), name, i)
        /\ RunLength(s, i + Len(name), SpaceSet) >= 1
        /\ DigitsAt(s, i + Len(name) + RunLength(s, i + Len(name), SpaceSet), 1) }

monthFirstMatch(s, name) ==
    LET i == CHOOSE x \in monthFirstStarts(s, name) :
                 \A y \in monthFirstStarts(s, name) : x <= y
        d0 == i + Len(name) + RunLength(s, i + Len(name), SpaceSet)
        dl == IF DigitsAt(s, d0, 2) THEN 2 ELSE 1
        sep == RunLength(s, d0 + dl, CommaOrSpace)
        y0 == d0 + dl + sep
    IN [day |-> parseInt(SubSeq(s, d0, d0 + dl - 1)),
        year |-> IF sep >= 1 /\ DigitsAt(s, y0, 4)
                 THEN parseInt(SubSeq(s, y0, y0 + 3)) ELSE -1]

\* new RegExp(`(\\d{1,2})\\s+${month}(?:\\s+(\\d{4}))?`, 'i')
dayFirstMatches(s, name) ==
    { [start |-> i, a |-> a, rank |-> a] : i \in 1..Len(s), a \in 1..2 }

dayFirstMatchOk(s, name, m) ==
    LET ws == RunLength(s, m.start + m.a, SpaceSet)
    IN /\ DigitsAt(s, m.start, m.a)
       /\ ws >= 1
       /\ OccursAt(toLowerCase(s), name, m.start + m.a + ws)

dayFirstMatch(s, name) ==
    LET m == FirstMatch({ c \in dayFirstMatches(s, name) : dayFirstMatchOk(s, name, c) })
        n0 == m.start + m.a + RunLength(s, m.start + m.a, SpaceSet) + Len(name)
        ws == RunLength(s, n0, SpaceSet)
    IN [day |-> parseInt(SubSeq(s, m.start, m.start + m.a - 1)),
        year |-> IF ws >= 1 /\ DigitsAt(s, n0 + ws, 4)
                 THEN parseInt(SubSeq(s, n0 + ws, n0 + ws + 3)) ELSE -1]

\* AIService.extractDate: a "YYYY-MM-DD" string, or Null
extractDateValue(message) ==
    LET lowerMessage == toLowerCase(message)
        dayHits == { i \in 1..7 : includes(lowerMessage, DayNames[i]) }
        slashOk == { m \in slashMatches(message) : slashMatchOk(message, m) }
        dashOk == { m \in dashMatches(message) : dashMatchOk(message, m) }
        monthHits == { i \in 1..12 : monthFirstStarts(message, monthNames[i]) # {} }
        dayMonthHits == { i \in 1..12 :
            \E c \in dayFirstMatches(message, monthNames[i]) :
                dayFirstMatchOk(message, monthNames[i], c) }
    IN IF includes(lowerMessage, <<"t","o","d","a","y">>) THEN Today
       ELSE IF includes(lowerMessage, <<"t","o","m","o","r","r","o","w">>)
       THEN AddDays(Today, 1)
       ELSE IF includes(lowerMessage,
                <<"d","a","y"," ","a","f","t","e","r"," ","t","o","m","o","r","r","o","w">>)
       THEN AddDays(Today, 2)
       ELSE IF includes(lowerMessage, <<"n","e","x","t"," ","w","e","e","k">>)
       THEN AddDays(Today, 7)
       ELSE IF dayHits # {}
       THEN LET targetDay == (CHOOSE i \in dayHits : \A j \in dayHits : i <= j) - 1
                diff == targetDay - getDay(Today)
                daysToAdd == IF diff <= 0 THEN diff + 7 ELSE diff
            IN AddDays(Today, daysToAdd)
       ELSE IF slashOk # {}
       THEN LET m == FirstMatch(slashOk)
                day == parseInt(SubSeq(message, m.start, m.start + m.a - 1))
                p2 == m.start + m.a + 1
                month == parseInt(SubSeq(message, p2, p2 + m.b - 1)) - 1
                yr == parseInt(SubSeq(message, p2 + m.b + 1, p2 + m.b + m.c))
                dateYear == IF m.c = 0 THEN Today[1]
                            ELSE IF m.c = 2 THEN 2000 + yr ELSE yr
            IN MakeDate(dateYear, month, day)
       ELSE IF dashOk # {}
       THEN LET m == FirstMatch(dashOk)
                first == parseInt(SubSeq(message, m.start, m.start + m.a - 1))
                p2 == m.start + m.a + 1
                second == parseInt(SubSeq(message, p2, p2 + m.b - 1))
                p3 == p2 + m.b + 1
                third == parseInt(SubSeq(message, p3, p3 + m.c - 1))
            IN IF m.a = 4 THEN MakeDate(first, second - 1, third)
               ELSE MakeDate(third, second - 1, first)
       ELSE IF monthHits # {}
       THEN LET i == CHOOSE x \in monthHits : \A y \in monthHits : x <= y
                mm == monthFirstMatch(message, monthNames[i])
            IN MakeDate(IF mm.year = -1 THEN Today[1] ELSE mm.year, i - 1, mm.day)
       ELSE IF dayMonthHits # {}
       THEN LET i == CHOOSE x \in dayMonthHits : \A y \in dayMonthHits : x <= y
                mm == dayFirstMatch(message, monthNames[i])
            IN MakeDate(IF mm.year = -1 THEN Today[1] ELSE mm.year, i - 1, mm.day)
       ELSE Null

\* the string extractDate returns for the date it found
formattedOrNull(date) == IF date = Null THEN Null ELSE formatDate(date)

extractDate(message) == formattedOrNull(extractDateValue(message))
\* /\b(\d{1,2})(?::(\d{2}))?\s*(am|pm|AM|PM)?\b/ : candidates [start, hl, mp,
\* ws, pp]: length of the hour group, minute group present, number of white
\* space characters, meridiem present; tried in this order by the matcher
Meridiems == { <<"a","m">>, <<"p","m">>, <<"A","M">>, <<"P","M">> }

timeMatches(s) ==
    { [start |-> i, hl |-> hl, mp |-> mp, ws |-> k, pp |-> pp,
       rank |-> (((hl * 2 + mp) * (Len(s) + 1)) + k) * 2 + pp] :
        i \in 1..Len(s), hl \in 1..2, mp \in 0..1, k \in 0..Len(s), pp \in 0..1 }

timeMatchOk(s, m) ==
    LET p1 == m.start + m.hl
        p2 == IF m.mp = 1 THEN p1 + 3 ELSE p1
        p3 == p2 + m.ws
        p4 == IF m.pp = 1 THEN p3 + 2 ELSE p3
    IN /\ WordBoundary(s, m.start)
       /\ DigitsAt(s, m.start, m.hl)
       /\ m.mp = 1 => (p1 <= Len(s) /\ s[p1] = ":" /\ DigitsAt(s, p1 + 1, 2))
       /\ p3 - 1 <= Len(s)
       /\ \A j \in p2..(p3 - 1) : IsSpace(s[j])
       /\ m.pp = 1 => (p3 + 1 <= Len(s) /\ SubSeq(s, p3, p3 + 1) \in Meridiems)
       /\ WordBoundary(s, p4)

\* AIService.extractTime: a "H:MM AM|PM" string, or Null
extractTime(message) ==
    LET lowerMessage == toLowerCase(message)
        ok == { m \in timeMatches(message) : timeMatchOk(message, m) }
    IN IF includes(lowerMessage, <<"m","o","r","n","i","n","g">>)
       THEN <<"0","9",":","0","0"," ","A","M">>
       ELSE IF \/ includes(lowerMessage, <<"n","o","o","n">>)
               \/ includes(lowerMessage, <<"m","i","d","d","a","y">>)
       THEN <<"1","2",":","0","0"," ","P","M">>
       ELSE IF includes(lowerMessage, <<"a","f","t","e","r","n","o","o","n">>)
       THEN <<"0","2",":","0","0"," ","P","M">>
       ELSE IF includes(lowerMessage, <<"e","v","e","n","i","n","g">>)
       THEN <<"0","5",":","0","0"," ","P","M">>
       ELSE IF ok = {} THEN Null
       ELSE LET m == FirstMatch(ok)
                p1 == m.start + m.hl
                hours == parseInt(SubSeq(message, m.start, p1 - 1))
                minutes == IF m.mp = 1 THEN parseInt(SubSeq(message, p1 + 1, p1 + 2)) ELSE 0
                p3 == (IF m.mp = 1 THEN p1 + 3 ELSE p1) + m.ws
                period == IF m.pp = 1 THEN toUpperCase(SubSeq(message, p3, p3 + 1))
                          ELSE IF hours < 12 THEN <<"A","M">> ELSE <<"P","M">>
                hours12 == IF m.pp = 0 /\ hours > 12 THEN hours - 12 ELSE hours
            IN IF hours > 24 THEN Null
               ELSE numberToString(hours12) \o <<":">> \o padStart2(minutes)
                        \o <<" ">> \o period

-----------------------------------------------------------------------------
(* AppointmentService: pure helpers *)

\* time.match(/(\d{1,2}):(\d{2})\s*(AM|PM)?/i)
slotTimeMatches(s) ==
    { [start |-> i, hl |-> hl, rank |-> hl] : i \in 1..Len(s), hl \in 1..2 }

slotTimeMatchOk(s, m) ==
    /\ DigitsAt(s, m.start, m.hl)
    /\ m.start + m.hl <= Len(s)
    /\ s[m.start + m.hl] = ":"
    /\ DigitsAt(s, m.start + m.hl + 1, 2)

\* parseDateTimeString: the period group of the time match, upper-cased
slotPeriod(time, pw) ==
    IF pw + 1 <= Len(time) THEN toUpperCase(SubSeq(time, pw, pw + 1)) ELSE Null

\* parseDateTimeString: conversion of the hour to the 24 hour clock
slotHour(hours, period) ==
    IF period = <<"P","M">> /\ hours < 12 THEN hours + 12
    ELSE IF period = <<"A","M">> /\ hours = 12 THEN 0
    ELSE hours

\* parseDateTimeString: Math.round(minutes / SLOT_DURATION) * SLOT_DURATION
roundedMinutes(minutes) ==
    ((2 * minutes + SLOT_DURATION) \div (2 * SLOT_DURATION)) * SLOT_DURATION

\* parseDateTimeString: the "HH:MM" slot of a matched time string
slotOfMatch(time, m) ==
    padStart2(slotHour(parseInt(SubSeq(time, m.start, m.start + m.hl - 1)),
                       slotPeriod(time, m.start + m.hl + 3
                                   + RunLength(time, m.start + m.hl + 3, SpaceSet))))
      \o <<":">>
      \o padStart2(roundedMinutes(parseInt(SubSeq(time, m.start + m.hl + 1,
                                                  m.start + m.hl + 2))) % 60)

\* parseDateTimeString: the time slot, "09:00" when no time was extracted
timeSlotOf(time) ==
    IF time = Null \/ { m \in slotTimeMatches(time) : slotTimeMatchOk(time, m) } = {}
    THEN <<"0","9",":","0","0">>
    ELSE slotOfMatch(time, FirstMatch({ m \in slotTimeMatches(time) :
                                          slotTimeMatchOk(time, m) }))

parsedDateTime(date, time) ==
    IF date = Null \/ dateFromString(date) = Null
    THEN [success |-> FALSE, date |-> Null, timeSlot |-> Null]
    ELSE [success |-> TRUE, date |-> dateFromString(date), timeSlot |-> timeSlotOf(time)]

\* AppointmentService.parseDateTimeString
parseDateTimeString(dateTimeString) ==
    parsedDateTime(extractDate(dateTimeString), extractTime(dateTimeString))

\* AppointmentService.isValidPhone
isValidPhone(phone) ==
    LET cleanPhone == stripSeparators(phone)
    IN \/ MatchFrom(phone, 1, PHONE_REGEX, 1)
       \/ (Len(cleanPhone) >= 10 /\ Len(cleanPhone) <= 15 /\ IsPlusDigits(cleanPhone))

\* a check of the name that sets no bound on its length
isValidNameOfAnyLength(name) == name # <<>>

\* AppointmentService.isValidName
isValidName(name) ==
    /\ name # <<>>
    /\ Len(trim(name)) >= NAME_MIN_LENGTH
    /\ Len(trim(name)) <= NAME_MAX_LENGTH

\* AppointmentService.isOperatingDay
isOperatingDay(date) == getDay(date) \in OPERATING_DAYS

\* a label whose period turns to PM after the hour of noon
formatTimeDisplayAfterNoon(hour, minute) ==
    numberToString(IF hour > 12 THEN hour - 12 ELSE IF hour = 0 THEN 12 ELSE hour)
        \o <<":">> \o padStart2(minute) \o <<" ">>
        \o (IF hour > 12 THEN <<"P","M">> ELSE <<"A","M">>)

\* AppointmentService.formatTimeDisplay: the 12-hour label of a time
formatTimeDisplay(hour, minute) ==
    numberToString(IF hour > 12 THEN hour - 12 ELSE IF hour = 0 THEN 12 ELSE hour)
        \o <<":">> \o padStart2(minute) \o <<" ">>
        \o (IF hour >= 12 THEN <<"P","M">> ELSE <<"A","M">>)

\* the two loops of generateTimeSlots, from (hour, minute) on
RECURSIVE generateTimeSlotsFrom(_, _)
generateTimeSlotsFrom(hour, minute) ==
    IF hour >= END_HOUR THEN <<>>
    ELSE IF hour >= BREAK_START /\ hour < BREAK_END THEN generateTimeSlotsFrom(hour + 1, 0)
    ELSE IF minute >= 60 THEN generateTimeSlotsFrom(hour + 1, 0)
    ELSE <<[time |-> padStart2(hour) \o <<":">> \o padStart2(minute),
            display |-> formatTimeDisplay(hour, minute)]>>
             \o generateTimeSlotsFrom(hour, minute + SLOT_DURATION)

\* AppointmentService.generateTimeSlots: the grid in ascending order; the
\* function never reads its date parameter
generateTimeSlots(date) == generateTimeSlotsFrom(START_HOUR, 0)

\* a spread that forgets the fields collected so far: { ...b }
SpreadDropping(a, b) == b

\* a spread in which the fields of the first object win
SpreadKeeping(a, b) ==
    [k \in (DOMAIN a) \cup (DOMAIN b) |-> IF k \in DOMAIN a THEN a[k] ELSE b[k]]

\* the object spread { ...a, ...b } on tempData objects
Spread(a, b) ==
    [k \in (DOMAIN a) \cup (DOMAIN b) |-> IF k \in DOMAIN b THEN b[k] ELSE a[k]]

EmptyData == [k \in {} |-> <<>>]
Field(k, v) == [x \in {k} |-> v]

\* AppointmentService.processBookingFlow: the transition function of the
\* dialogue.  response is the name of the message that is sent.
processBookingFlow(userMessage, currentState) ==
    LET status == currentState.status
        tempData == currentState.tempData
        trimmedMessage == trim(userMessage)
        lowerMessage == toLowerCase(trimmedMessage)
    IN CASE status = IDLE ->
              [nextState |-> COLLECTING_OWNER_NAME, response |-> "APPOINTMENT_START",
               tempData |-> EmptyData, shouldSave |-> FALSE]
         [] status = COLLECTING_OWNER_NAME ->
              IF ~isValidName(trimmedMessage)
              THEN [nextState |-> status, response |-> "INVALID_NAME",
                    tempData |-> tempData, shouldSave |-> FALSE]
              ELSE [nextState |-> COLLECTING_PET_NAME, response |-> "ASK_PET_NAME",
                    tempData |-> Spread(tempData, Field("ownerName", trimmedMessage)),
                    shouldSave |-> FALSE]
         [] status = COLLECTING_PET_NAME ->
              IF trimmedMessage = <<>> \/ Len(trimmedMessage) < 1
              THEN [nextState |-> status, response |-> "ENTER_PET_NAME",
                    tempData |-> tempData, shouldSave |-> FALSE]
              ELSE [nextState |-> COLLECTING_PHONE, response |-> "ASK_PHONE",
                    tempData |-> Spread(tempData, Field("petName", trimmedMessage)),
                    shouldSave |-> FALSE]
         [] status = COLLECTING_PHONE ->
              IF ~isValidPhone(trimmedMessage)
              THEN [nextState |-> status, response |-> "INVALID_PHONE",
                    tempData |-> tempData, shouldSave |-> FALSE]
              ELSE [nextState |-> COLLECTING_DATE_TIME, response |-> "ASK_DATE_TIME",
                    tempData |-> Spread(tempData, Field("phone", trimmedMessage)),
                    shouldSave |-> FALSE]
         [] status = COLLECTING_DATE_TIME ->
              IF trimmedMessage = <<>> \/ Len(trimmedMessage) < 5
              THEN [nextState |-> status, response |-> "PROVIDE_DATE_TIME",
                    tempData |-> tempData, shouldSave |-> FALSE]
              ELSE [nextState |-> CONFIRMING, response |-> "CONFIRM_BOOKING",
                    tempData |-> Spread(tempData, Field("preferredDateTime", trimmedMessage)),
                    shouldSave |-> FALSE]
         [] status = CONFIRMING ->
              IF lowerMessage \in { <<"y","e","s">>, <<"y">>, <<"c","o","n","f","i","r","m">> }
              THEN [nextState |-> COMPLETED, response |-> "BOOKING_SUCCESS",
                    tempData |-> tempData, shouldSave |-> TRUE]
              ELSE IF lowerMessage \in { <<"n","o">>, <<"n">>, <<"c","a","n","c","e","l">> }
              THEN [nextState |-> IDLE, response |-> "BOOKING_CANCELLED",
                    tempData |-> EmptyData, shouldSave |-> FALSE]
              ELSE [nextState |-> status, response |-> "REPLY_YES_OR_NO",
                    tempData |-> tempData, shouldSave |-> FALSE]
         [] OTHER ->
              [nextState |-> IDLE, response |-> "APPOINTMENT_START",
               tempData |-> EmptyData, shouldSave |-> FALSE]

-----------------------------------------------------------------------------
(* appointmentValidator: each validator returns the sequence of the errors it
   pushes, an error being its field and code (the message text is fixed by
   the code).  A missing or empty value is Null. *)

Err(field, code) == [field |-> field, code |-> code]

NameChars ==
    Range(UpperCase) \cup Range(LowerCase) \cup {" ", "\t", "\n", "\r", "-", "'", "."}

validateOwnerName(name) ==
    LET trimmedName == trim(name)
        lengthErrors ==
            IF Len(trimmedName) = 0 THEN <<Err("ownerName", "EMPTY")>>
            ELSE IF Len(trimmedName) < NAME_MIN_LENGTH THEN <<Err("ownerName", "TOO_SHORT")>>
            ELSE IF Len(trimmedName) > NAME_MAX_LENGTH THEN <<Err("ownerName", "TOO_LONG")>>
            ELSE <<>>
        charErrors ==
            IF Len(trimmedName) > 0 /\ ~(Range(trimmedName) \subseteq NameChars)
            THEN <<Err("ownerName", "INVALID_CHARACTERS")>>
            ELSE <<>>
    IN IF name = Null THEN <<Err("ownerName", "REQUIRED")>>
       ELSE lengthErrors \o charErrors

validatePetName(name) ==
    LET trimmedName == trim(name)
    IN IF name = Null THEN <<Err("petName", "REQUIRED")>>
       ELSE IF Len(trimmedName) = 0 THEN <<Err("petName", "EMPTY")>>
       ELSE IF Len(trimmedName) < 1 THEN <<Err("petName", "TOO_SHORT")>>
       ELSE IF Len(trimmedName) > 50 THEN <<Err("petName", "TOO_LONG")>>
       ELSE <<>>

\* a phone rule without the lower bound on the length
validatePhoneOfAnyLength(phone) ==
    LET trimmedPhone == trim(phone)
        cleanPhone == stripSeparators(trimmedPhone)
    IN IF phone = Null THEN <<Err("phone", "REQUIRED")>>
       ELSE IF Len(trimmedPhone) = 0 THEN <<Err("phone", "EMPTY")>>
       ELSE IF Len(cleanPhone) > 15 THEN <<Err("phone", "TOO_LONG")>>
       ELSE IF ~IsPlusDigits(cleanPhone) THEN <<Err("phone", "INVALID_FORMAT")>>
       ELSE <<>>

validatePhone(phone) ==
    LET trimmedPhone == trim(phone)
        cleanPhone == stripSeparators(trimmedPhone)
    IN IF phone = Null THEN <<Err("phone", "REQUIRED")>>
       ELSE IF Len(trimmedPhone) = 0 THEN <<Err("phone", "EMPTY")>>
       ELSE IF Len(cleanPhone) < 10 THEN <<Err("phone", "TOO_SHORT")>>
       ELSE IF Len(cleanPhone) > 15 THEN <<Err("phone", "TOO_LONG")>>
       ELSE IF ~IsPlusDigits(cleanPhone) THEN <<Err("phone", "INVALID_FORMAT")>>
       ELSE <<>>

validateScheduledDate(dateString) ==
    LET inputDate == dateFromString(dateString)
        maxDate == AddDays(Today, 90)
    IN IF dateString = Null THEN <<Err("scheduledDate", "REQUIRED")>>
       ELSE IF inputDate = Null THEN <<Err("scheduledDate", "INVALID_FORMAT")>>
       ELSE (IF DateBefore(inputDate, Today)
             THEN <<Err("scheduledDate", "PAST_DATE")>> ELSE <<>>)
            \o (IF DateBefore(maxDate, inputDate)
                THEN <<Err("scheduledDate", "TOO_FAR_FUTURE")>> ELSE <<>>)
            \o (IF getDay(inputDate) \notin OPERATING_DAYS
                THEN <<Err("scheduledDate", "CLOSED_DAY")>> ELSE <<>>)

\* /^\d{2}:\d{2}$/
IsTimeSlotFormat(timeSlot) ==
    /\ Len(timeSlot) = 5
    /\ DigitsAt(timeSlot, 1, 2)
    /\ timeSlot[3] = ":"
    /\ DigitsAt(timeSlot, 4, 2)

slotHours(timeSlot) == parseInt(SubSeq(timeSlot, 1, 2))
slotMinutes(timeSlot) == parseInt(SubSeq(timeSlot, 4, 5))

\* a slot rule that knows no lunch break
validateTimeSlotThroughLunch(timeSlot, scheduledDate) ==
    LET hours == slotHours(timeSlot)
        minutes == slotMinutes(timeSlot)
    IN IF timeSlot = Null THEN <<Err("scheduledTimeSlot", "REQUIRED")>>
       ELSE IF ~IsTimeSlotFormat(timeSlot) THEN <<Err("scheduledTimeSlot", "INVALID_FORMAT")>>
       ELSE (IF hours < START_HOUR \/ hours >= END_HOUR
             THEN <<Err("scheduledTimeSlot", "OUTSIDE_HOURS")>> ELSE <<>>)
            \o (IF minutes % SLOT_DURATION # 0
                THEN <<Err("scheduledTimeSlot", "INVALID_INTERVAL")>> ELSE <<>>)

validateTimeSlot(timeSlot, scheduledDate) ==
    LET hours == slotHours(timeSlot)
        minutes == slotMinutes(timeSlot)
        currentHour == NowMinutes \div 60
        currentMinute == NowMinutes % 60
        isToday == scheduledDate # Null /\ dateFromString(scheduledDate) = Today
    IN IF timeSlot = Null THEN <<Err("scheduledTimeSlot", "REQUIRED")>>
       ELSE IF ~IsTimeSlotFormat(timeSlot) THEN <<Err("scheduledTimeSlot", "INVALID_FORMAT")>>
       ELSE (IF hours < START_HOUR \/ hours >= END_HOUR
             THEN <<Err("scheduledTimeSlot", "OUTSIDE_HOURS")>> ELSE <<>>)
            \o (IF hours >= BREAK_START /\ hours < BREAK_END
                THEN <<Err("scheduledTimeSlot", "BREAK_TIME")>> ELSE <<>>)
            \o (IF minutes % SLOT_DURATION # 0
                THEN <<Err("scheduledTimeSlot", "INVALID_INTERVAL")>> ELSE <<>>)
            \o (IF isToday /\ (hours < currentHour
                               \/ (hours = currentHour /\ minutes <= currentMinute))
                THEN <<Err("scheduledTimeSlot", "TIME_PASSED")>> ELSE <<>>)
            \o (IF isToday /\ hours * 60 + minutes < NowMinutes + 30
                THEN <<Err("scheduledTimeSlot", "INSUFFICIENT_NOTICE")>> ELSE <<>>)

\* the requests of the model carry the five required fields; petType, email,
\* service, reason and notes are absent, so their validators add nothing
validateDirectAppointment(data) ==
    validateOwnerName(data.ownerName)
        \o validatePetName(data.petName)
        \o validatePhone(data.phone)
        \o validateScheduledDate(data.scheduledDate)
        \o validateTimeSlot(data.scheduledTimeSlot, data.scheduledDate)

\* AIService.generateResponse: the intent is a booking intent exactly when
\* detectAppointmentIntent holds; the text of every other answer is one value
generateResponse(userMessage) ==
    IF detectAppointmentIntent(userMessage)
    THEN [response |-> "APPOINTMENT_START", isAppointmentIntent |-> TRUE]
    ELSE [response |-> "AI_RESPONSE", isAppointmentIntent |-> FALSE]

-----------------------------------------------------------------------------
(* The store: the conversations and appointments collections *)

\* the messages a client sends in a chat turn
TextBook == <<" ","B","o","o","k"," ">>
TextPhone == <<"5","5","5","-","1","2","3","-","4","5","6","7">>
TextDate == <<"t","o","m","o","r","r","o","w"," ","1","0","a","m">>
TextYes == <<"Y">>
TextNo == <<"N">>
Texts == {TextBook, TextPhone, TextDate, TextYes, TextNo}

SessionIds == {"s1"}
NoSession == "null"

\* the bodies of POST /appointments requests
DateTomorrow == <<"2","0","2","6","-","0","1","-","3","0">>
ReqA ==
    [ownerName |-> <<"B","o","b">>, petName |-> <<"R","e","x">>,
     phone |-> <<"5","5","5","1","2","3","4","5","6","7">>,
     scheduledDate |-> DateTomorrow,
     scheduledTimeSlot |-> <<"1","0",":","0","0">>]
ReqB == [ReqA EXCEPT !.scheduledTimeSlot = <<"1","0",":","3","0">>]
ReqC == [ReqA EXCEPT !.scheduledTimeSlot = <<"1","3",":","0","0">>]
DirectRequests == {ReqA, ReqB, ReqC}

ActiveStatuses == APPOINTMENT_STATUS \ {"cancelled", "no-show"}

\* Appointment.isSlotAvailable: no appointment of that day and slot whose
\* status is neither cancelled nor no-show
isSlotAvailable(appts, date, timeSlot) ==
    ~\E id \in DOMAIN appts :
        /\ appts[id].scheduledDate = date
        /\ appts[id].scheduledTimeSlot = timeSlot
        /\ appts[id].status \in ActiveStatuses

\* the time slots of the appointments ids, in the order of their insertion
RECURSIVE slotsOf(_, _)
slotsFrom(appts, ids, id) ==
    <<appts[id].scheduledTimeSlot>> \o slotsOf(appts, ids \ {id})

slotsOf(appts, ids) ==
    IF ids = {} THEN <<>>
    ELSE slotsFrom(appts, ids, CHOOSE i \in ids : \A j \in ids : i <= j)

\* the slots of every appointment of the day, whatever its status
getBookedSlotsOfAny(appts, date) ==
    slotsOf(appts, { i \in DOMAIN appts : appts[i].scheduledDate = date })

\* Appointment.getBookedSlots: one entry per active appointment of the day,
\* so a slot that two appointments hold is listed twice
getBookedSlots(appts, date) ==
    slotsOf(appts, { i \in DOMAIN appts : /\ appts[i].scheduledDate = date
                                          /\ appts[i].status \in ActiveStatuses })

RECURSIVE FilterSeq(_, _)
FilterSeq(s, keep) ==
    IF s = <<>> THEN <<>>
    ELSE (IF Head(s) \in keep THEN <<Head(s)>> ELSE <<>>) \o FilterSeq(Tail(s), keep)

Take(s, n) == SubSeq(s, 1, IF Len(s) < n THEN Len(s) ELSE n)

\* allSlots.filter(s => !bookedSlots.includes(s.time)).slice(0, 5)
suggestedSlots(appts, date) ==
    Take(FilterSeq(generateTimeSlots(date),
                   { s \in Range(generateTimeSlots(date)) :
                       s.time \notin Range(getBookedSlots(appts, date)) }), 5)

\* the context a request may carry: of its fields the model keeps userId and
\* source; a field that is absent is Null
NoContext == [userId |-> Null, source |-> Null]
ContextWeb == [userId |-> <<"u","1">>, source |-> <<"w","e","b">>]
ContextApp == [userId |-> <<"u","2">>, source |-> <<"a","p","p">>]
Contexts == {NoContext, ContextWeb, ContextApp}

\* the context findOrCreateSession stores: context.userId || null,
\* context.source || 'unknown'
sessionContext(context) ==
    [userId |-> context.userId,
     source |-> IF context.source = Null
                THEN <<"u","n","k","n","o","w","n">> ELSE context.source]

\* new Conversation({ sessionId, context }): the other paths take the
\* defaults of the schema
NewSession(context) ==
    [context |-> sessionContext(context),
     bookingState |-> [status |-> IDLE, tempData |-> EmptyData],
     messages |-> <<>>]

\* the document a chat request creates: the requests of the model carry no
\* context
NewConversation == NewSession(NoContext)

\* a findOrCreateSession that never looks for the session
findOrCreateSessionAlways(convs, sessionId, context) ==
    [conversations |->
        [x \in (DOMAIN convs) \cup {sessionId} |->
            IF x = sessionId THEN NewSession(context) ELSE convs[x]],
     conversation |-> NewSession(context)]

\* Conversation.findOrCreateSession, served without any other request in
\* between: the collection after the call and the document it returns
findOrCreateSession(convs, sessionId, context) ==
    IF sessionId \in DOMAIN convs
    THEN [conversations |-> convs, conversation |-> convs[sessionId]]
    ELSE [conversations |->
             [x \in (DOMAIN convs) \cup {sessionId} |->
                 IF x = sessionId THEN NewSession(context) ELSE convs[x]],
          conversation |-> NewSession(context)]

Message(role, content) == [role |-> role, content |-> content]

\* a result as the caller of an operation receives it
Result(success, response, code) ==
    [success |-> success, response |-> response, code |-> code,
     slotTaken |-> FALSE, appointmentId |-> 0, suggested |-> <<>>, errors |-> <<>>]

NoResult == Result(FALSE, "", "")
NoState == [status |-> "", tempData |-> EmptyData]
NoFlow == [nextState |-> "", response |-> "", tempData |-> EmptyData, shouldSave |-> FALSE]
NoData == [ownerName |-> Null, petName |-> Null, phone |-> Null,
           scheduledDate |-> Null, scheduledTimeSlot |-> Null]

\* a request handler that is not running
IdleProc ==
    [pc |-> "idle", op |-> "", sessionId |-> NoSession, raw |-> Null, text |-> Null,
     state |-> NoState, flow |-> NoFlow, doc |-> NoState, found |-> FALSE,
     date |-> Null, timeSlot |-> Null, data |-> NoData, outcome |-> "",
     result |-> NoResult, context |-> NoContext, conversation |-> NewConversation,
     pre |-> NoState, inserted |-> 0, failed |-> {}, overlap |-> FALSE,
     answer |-> <<>>]

Procs == {1, 2}
-----------------------------------------------------------------------------
(* Initial state and the helpers of the steps *)

Init ==
    /\ conversations = [s \in {} |-> NewConversation]
    /\ appointments = [i \in {} |-> 0]
    /\ nextId = 1
    /\ procs = [p \in Procs |-> IdleProc]
    /\ turns = 0
    /\ faults = 0
    /\ sent = [s \in SessionIds |-> EmptyData]

Extend(f, k, v) == [x \in (DOMAIN f) \cup {k} |-> IF x = k THEN v ELSE f[x]]
Remove(f, k) == [x \in (DOMAIN f) \ {k} |-> f[x]]

\* the store as a step of a handler reads and writes it
Store ==
    [conversations |-> conversations, appointments |-> appointments,
     nextId |-> nextId, sent |-> sent]

\* what a step of a handler leaves behind: the store and the handler's record
After(store, proc) == [store |-> store, proc |-> proc]

Finished(proc, result) == [proc EXCEPT !.pc = "done", !.result = result]

ErrorResponse == Result(FALSE, "ERROR_RESPONSE", "")
IssueSaving == Result(FALSE, "ISSUE_SAVING", "")
InternalError == Result(FALSE, "", "INTERNAL_ERROR")
Coded(code) == Result(FALSE, "", code)

\* the persisted bookingState of a session; a session that is not stored yet
\* has the state its document is created with
BookingStateOf(convs, sessionId) ==
    IF sessionId \in DOMAIN convs THEN convs[sessionId].bookingState
    ELSE NewConversation.bookingState

-----------------------------------------------------------------------------
(* ChatService.processMessage, one step per await.  A step maps the store and
   the record of the handler to the store and the record after it. *)

\* POST /chat: chatController hands the trimmed message over
startTurn(store, sessionId, text) ==
    [IdleProc EXCEPT !.pc = "findSession", !.op = "chat",
                     !.sessionId = sessionId, !.raw = text, !.text = trim(text),
                     !.pre = BookingStateOf(store.conversations, sessionId)]

\* Conversation.findOrCreateSession: findOne
findSession(store, proc) ==
    After(store, [proc EXCEPT !.pc = IF proc.sessionId \in DOMAIN store.conversations
                                     THEN "addUser" ELSE "createSession"])

\* Conversation.findOrCreateSession: save of the new document; sessionId is
\* unique, so the save throws when the session was created in between
createSession(store, proc) ==
    IF proc.sessionId \in DOMAIN store.conversations
    THEN After(store, Finished(proc, ErrorResponse))
    ELSE After([store EXCEPT !.conversations = Extend(@, proc.sessionId, NewConversation)],
               [proc EXCEPT !.pc = "addUser"])

\* an append that does not select the session
AppendMessageToAll(convs, sessionId, role, content) ==
    [s \in DOMAIN convs |->
        [convs[s] EXCEPT !.messages = Append(@, Message(role, content))]]

\* ConversationService.addMessage / Conversation.addMessage: $push
AppendMessage(convs, sessionId, role, content) ==
    IF sessionId \in DOMAIN convs
    THEN [convs EXCEPT ![sessionId].messages = Append(@, Message(role, content))]
    ELSE convs

\* step 2 of processMessage; the log keeps the role of a user message, its
\* text is not read back by any operation of the model
addUserMessage(store, proc) ==
    After([store EXCEPT !.conversations = AppendMessage(@, proc.sessionId, "user", "text")],
          [proc EXCEPT !.pc = "getState"])

\* the field of tempData a state of the dialogue collects
FieldOf(status) ==
    CASE status = COLLECTING_OWNER_NAME -> "ownerName"
      [] status = COLLECTING_PET_NAME -> "petName"
      [] status = COLLECTING_PHONE -> "phone"
      [] status = COLLECTING_DATE_TIME -> "preferredDateTime"
      [] OTHER -> ""

\* history of the texts the dialogue accepted, restarted with the dialogue
Record(history, state, flow, text) ==
    IF FieldOf(state.status) # "" /\ flow.nextState # state.status
    THEN Spread(history, Field(FieldOf(state.status), text))
    ELSE history

\* a start of the dialogue that skips the question for the owner's name
startBookingFlowSkipping(proc) ==
    [proc EXCEPT !.flow = [nextState |-> COLLECTING_PET_NAME,
                           response |-> "APPOINTMENT_START",
                           tempData |-> EmptyData, shouldSave |-> FALSE],
                 !.result = Result(TRUE, "APPOINTMENT_START", ""),
                 !.pc = "updFind"]

\* ChatService.startBookingFlow up to its first await
startBookingFlow(proc) ==
    LET flow == processBookingFlow(Null, [status |-> IDLE, tempData |-> EmptyData])
    IN [proc EXCEPT !.flow = flow, !.result = Result(TRUE, flow.response, ""),
                    !.pc = "updFind"]

\* a handleBookingFlow that persists the state of the transition before it
\* commits
handleBookingFlowPersisting(proc, currentState) ==
    [proc EXCEPT !.flow = processBookingFlow(proc.text, currentState),
                 !.result = Result(TRUE, processBookingFlow(proc.text, currentState).response, ""),
                 !.pc = "updFind"]

\* ChatService.handleBookingFlow up to its first await
handleBookingFlow(proc, currentState) ==
    LET flow == processBookingFlow(proc.text, currentState)
    IN [proc EXCEPT !.flow = flow, !.result = Result(TRUE, flow.response, ""),
                    !.pc = IF flow.shouldSave THEN "caFindConv" ELSE "updFind"]

\* steps 3 to 5 of processMessage: ConversationService.getBookingState, then
\* handleBookingFlow or startBookingFlow
getBookingState(store, proc) ==
    LET sessionId == proc.sessionId
        state == IF sessionId \in DOMAIN store.conversations
                 THEN store.conversations[sessionId].bookingState
                 ELSE [status |-> IDLE, tempData |-> EmptyData]
        read == [proc EXCEPT !.state = state]
    IN IF state.status # IDLE
       THEN After([store EXCEPT !.sent[sessionId] =
                      Record(@, state, processBookingFlow(proc.text, state), proc.raw)],
                  handleBookingFlow(read, state))
       ELSE IF detectAppointmentIntent(proc.text)
       THEN After([store EXCEPT !.sent[sessionId] = EmptyData], startBookingFlow(read))
       ELSE After(store, [read EXCEPT !.pc = "getHistory"])

\* steps 6 to 8 of processMessage: getHistory, generateResponse
getHistory(store, proc) ==
    LET aiResult == generateResponse(proc.text)
    IN IF aiResult.isAppointmentIntent
       THEN After(store, startBookingFlow(proc))
       ELSE After(store, [proc EXCEPT !.result = Result(TRUE, aiResult.response, ""),
                                      !.pc = "addBot"])

\* ConversationService.updateBookingState: findOne
updFind(store, proc) ==
    IF proc.sessionId \in DOMAIN store.conversations
    THEN After(store, [proc EXCEPT
                          !.doc = store.conversations[proc.sessionId].bookingState,
                          !.pc = "updSave"])
    ELSE After(store, [proc EXCEPT !.pc = "addBot"])

\* an update that keeps nothing but the field collected in the state of the
\* document
updateBookingStateForgetting(doc, status, tempData) ==
    [status |-> status,
     tempData |-> [f \in (DOMAIN tempData) \cap {FieldOf(doc.status)} |-> tempData[f]]]

\* Conversation.updateBookingState on the document that was found: the new
\* status, and the new fields spread over the fields of the document
updateBookingState(doc, status, tempData) ==
    [status |-> status, tempData |-> Spread(doc.tempData, tempData)]

\* document.save(): of status and tempData, the paths whose value differs from
\* the one the document was loaded with are written, each as a whole
saved(stored, loaded, assigned) ==
    [status |-> IF assigned.status # loaded.status
                THEN assigned.status ELSE stored.status,
     tempData |-> IF assigned.tempData # loaded.tempData
                  THEN assigned.tempData ELSE stored.tempData]

\* ConversationService.updateBookingState: save
updSave(store, proc) ==
    After(IF proc.sessionId \in DOMAIN store.conversations
          THEN [store EXCEPT !.conversations[proc.sessionId].bookingState =
                   saved(@, proc.doc,
                         updateBookingState(proc.doc, proc.flow.nextState,
                                            proc.flow.tempData))]
          ELSE store,
          [proc EXCEPT !.pc = "addBot"])

\* the last addMessage of every path of the turn, then the return
addBotMessage(store, proc) ==
    After([store EXCEPT !.conversations =
              AppendMessage(@, proc.sessionId, "bot", proc.result.response)],
          [proc EXCEPT !.pc = "done"])

-----------------------------------------------------------------------------
(* AppointmentService.createAppointment, called by handleBookingFlow *)

Get(data, k) == IF k \in DOMAIN data THEN data[k] ELSE Null

\* the date and the slot createAppointment schedules: those parsed from
\* preferredDateTime, both null when the text is absent or does not parse
scheduledOf(preferred, parsed) ==
    IF preferred # Null /\ parsed.success
    THEN [date |-> parsed.date, timeSlot |-> parsed.timeSlot]
    ELSE [date |-> Null, timeSlot |-> Null]

\* the slot is checked only when both the date and the slot are known
withSchedule(proc, found, scheduled) ==
    [proc EXCEPT !.found = found,
                 !.date = scheduled.date,
                 !.timeSlot = scheduled.timeSlot,
                 !.pc = IF scheduled.date # Null /\ scheduled.timeSlot # Null
                        THEN "caCheckSlot" ELSE "caInsert"]

\* Conversation.findOne, then the parse of preferredDateTime
caFindConv(store, proc) ==
    After(store,
          withSchedule([proc EXCEPT !.doc = BookingStateOf(store.conversations,
                                                           proc.sessionId)],
                       proc.sessionId \in DOMAIN store.conversations,
                       scheduledOf(Get(proc.flow.tempData, "preferredDateTime"),
                                   parseDateTimeString(
                                       Get(proc.flow.tempData, "preferredDateTime")))))

\* createAppointment returned { success: false }: handleBookingFlow answers
\* with the same text whatever the reason
commitFailed(proc, outcome) ==
    [proc EXCEPT !.outcome = outcome, !.result = IssueSaving, !.pc = "addBot"]

\* Appointment.isSlotAvailable
caCheckSlot(store, proc) ==
    IF isSlotAvailable(store.appointments, proc.date, proc.timeSlot)
    THEN After(store, [proc EXCEPT !.pc = "caInsert"])
    ELSE After(store, commitFailed(proc, "slotTaken"))

\* the schema of Appointment: required fields and the length of ownerName
SchemaValid(doc) ==
    /\ Len(doc.ownerName) >= 2 /\ Len(doc.ownerName) <= 100
    /\ Len(doc.petName) >= 1 /\ Len(doc.petName) <= 100
    /\ Len(doc.phone) >= 1
    /\ Len(doc.preferredDateTime) >= 1

NewAppointment(sessionId, appointmentData, scheduledDate, scheduledTimeSlot) ==
    [sessionId |-> sessionId,
     ownerName |-> trim(Get(appointmentData, "ownerName")),
     petName |-> trim(Get(appointmentData, "petName")),
     phone |-> trim(Get(appointmentData, "phone")),
     scheduledDate |-> scheduledDate,
     scheduledTimeSlot |-> scheduledTimeSlot,
     preferredDateTime |-> Get(appointmentData, "preferredDateTime"),
     notes |-> Null,
     status |-> "pending"]

Insert(store, doc) ==
    [store EXCEPT !.appointments = Extend(@, store.nextId, doc),
                  !.nextId = @ + 1]

\* appointment.save()
caInsert(store, proc) ==
    LET doc == NewAppointment(proc.sessionId, proc.flow.tempData, proc.date, proc.timeSlot)
    IN IF ~SchemaValid(doc)
       THEN After(store, commitFailed(proc, "error"))
       ELSE After(Insert(store, doc),
                  [proc EXCEPT
                      !.inserted = @ + 1,
                      !.result = [proc.result EXCEPT !.appointmentId = store.nextId],
                      !.outcome = IF proc.found THEN "" ELSE "ok",
                      !.pc = IF proc.found THEN "caReset" ELSE "addBot"])

\* a reset that goes through the merging update and so keeps the fields
caResetMerging(store, proc) ==
    After(IF proc.sessionId \in DOMAIN store.conversations
          THEN [store EXCEPT !.conversations[proc.sessionId].bookingState =
                   saved(@, proc.doc, updateBookingState(proc.doc, IDLE, EmptyData))]
          ELSE store,
          [proc EXCEPT !.outcome = "ok", !.pc = "addBot"])

\* conversation.bookingState = { status: IDLE, tempData: {} }; save
caReset(store, proc) ==
    After(IF proc.sessionId \in DOMAIN store.conversations
          THEN [store EXCEPT !.conversations[proc.sessionId].bookingState =
                   saved(@, proc.doc, [status |-> IDLE, tempData |-> EmptyData])]
          ELSE store,
          [proc EXCEPT !.outcome = "ok", !.pc = "addBot"])

-----------------------------------------------------------------------------
(* AppointmentService.createDirectAppointment, one step per await *)

\* the checks of createDirectAppointment before its first await: the code of
\* the rejection ("VALIDATION_ERRORS" for validationResult.toResponse(), which
\* carries the errors and no code), "" when the request passes them
directRejection(data) ==
    LET errors == validateDirectAppointment(data)
        scheduledDate == dateFromString(data.scheduledDate)
        timeSlot == data.scheduledTimeSlot
        hours == slotHours(timeSlot)
        minutes == slotMinutes(timeSlot)
    IN IF errors # <<>> THEN "VALIDATION_ERRORS"
       ELSE IF DateBefore(scheduledDate, Today) THEN "PAST_DATE"
       ELSE IF ~isOperatingDay(scheduledDate) THEN "CLOSED_DAY"
       ELSE IF ~IsTimeSlotFormat(timeSlot) THEN "INVALID_TIME_FORMAT"
       ELSE IF hours < START_HOUR \/ hours >= END_HOUR THEN "OUTSIDE_HOURS"
       ELSE IF hours >= BREAK_START /\ hours < BREAK_END THEN "BREAK_TIME"
       ELSE IF minutes % SLOT_DURATION # 0 THEN "INVALID_INTERVAL"
       ELSE IF scheduledDate = Today /\ hours * 60 + minutes <= NowMinutes + 30
       THEN "INSUFFICIENT_NOTICE"
       ELSE ""

\* POST /appointments: validation and the checks that need no store access
startDirect(data) ==
    LET code == directRejection(data)
        proc == [IdleProc EXCEPT !.op = "direct", !.data = data]
    IN IF code = "VALIDATION_ERRORS"
       THEN Finished(proc, [Coded("") EXCEPT !.errors = validateDirectAppointment(data)])
       ELSE IF code # ""
       THEN Finished(proc, Coded(code))
       ELSE [proc EXCEPT !.pc = "dcCheckSlot",
                         !.date = dateFromString(data.scheduledDate),
                         !.timeSlot = data.scheduledTimeSlot]

\* Appointment.isSlotAvailable
dcCheckSlot(store, proc) ==
    After(store, [proc EXCEPT !.pc =
                     IF isSlotAvailable(store.appointments, proc.date, proc.timeSlot)
                     THEN "dcFindDup" ELSE "dcSuggest"])

\* Appointment.getBookedSlots, then the SLOT_TAKEN result with suggestions
dcSuggest(store, proc) ==
    After(store, Finished([proc EXCEPT !.outcome = "slotTaken"],
                          [Coded("SLOT_TAKEN") EXCEPT
                              !.slotTaken = TRUE,
                              !.suggested = suggestedSlots(store.appointments, proc.date)]))

\* the findOne for an appointment of the same phone on the same day: the
\* stored phone is compared with the request's phone without separators
hasDuplicate(appts, phone, date) ==
    \E id \in DOMAIN appts :
        /\ appts[id].phone = stripSeparators(trim(phone))
        /\ appts[id].scheduledDate = date
        /\ appts[id].status \in ActiveStatuses

dcFindDup(store, proc) ==
    IF hasDuplicate(store.appointments, proc.data.phone, proc.date)
    THEN After(store, Finished([proc EXCEPT !.outcome = "duplicate"],
                               Coded("DUPLICATE_BOOKING")))
    ELSE After(store, [proc EXCEPT !.pc = "dcInsert"])

\* the document createDirectAppointment builds
DirectAppointment(data, scheduledDate, timeSlot) ==
    [sessionId |-> NoSession,
     ownerName |-> trim(data.ownerName),
     petName |-> trim(data.petName),
     phone |-> trim(data.phone),
     scheduledDate |-> scheduledDate,
     scheduledTimeSlot |-> timeSlot,
     preferredDateTime |-> formatDate(scheduledDate) \o <<" ","a","t"," ">> \o timeSlot,
     notes |-> Null,
     status |-> "pending"]

\* appointment.save()
dcInsert(store, proc) ==
    After(Insert(store, DirectAppointment(proc.data, proc.date, proc.timeSlot)),
          [proc EXCEPT !.pc = "done", !.inserted = @ + 1, !.outcome = "ok",
                       !.result = [Result(TRUE, "", "") EXCEPT
                                      !.appointmentId = store.nextId]])

-----------------------------------------------------------------------------
(* The operations on one stored appointment.  Each is a single find and a
   single write; a request names an appointment by a well-formed _id.  Each
   maps the collection to the collection and the result of the request. *)

AppointmentIds == 1..MaxAppointments

Outcome(appts, result) == [appointments |-> appts, result |-> result]
Succeeded(id) == [Result(TRUE, "", "") EXCEPT !.appointmentId = id]

\* AppointmentService.updateStatus: findByIdAndUpdate, any valid status; its
\* failures carry an error text and no code
updateStatus(appts, id, newStatus) ==
    IF newStatus \notin APPOINTMENT_STATUS
    THEN Outcome(appts, Result(FALSE, "Invalid status", ""))
    ELSE IF id \notin DOMAIN appts
    THEN Outcome(appts, Result(FALSE, "Appointment not found", ""))
    ELSE Outcome([appts EXCEPT ![id].status = newStatus], Succeeded(id))

\* the code cancelAppointment rejects the request with, "" when it cancels
cancelRejection(appts, id) ==
    IF id \notin DOMAIN appts THEN "NOT_FOUND"
    ELSE IF appts[id].status = "cancelled" THEN "ALREADY_CANCELLED"
    ELSE IF appts[id].status = "completed" THEN "ALREADY_COMPLETED"
    ELSE IF appts[id].scheduledDate # Null /\ DateBefore(appts[id].scheduledDate, Today)
    THEN "PAST_APPOINTMENT"
    ELSE ""

\* AppointmentService.cancelAppointment, without a reason
cancelAppointment(appts, id) ==
    IF cancelRejection(appts, id) # ""
    THEN Outcome(appts, Coded(cancelRejection(appts, id)))
    ELSE Outcome([appts EXCEPT ![id].status = "cancelled"], Succeeded(id))

\* a delete that does not look at the status
deleteAppointmentAny(appts, id) ==
    IF id \notin DOMAIN appts
    THEN Outcome(appts, Coded("NOT_FOUND"))
    ELSE Outcome(Remove(appts, id), Succeeded(id))

\* AppointmentService.deleteAppointment
deleteAppointment(appts, id) ==
    IF id \notin DOMAIN appts
    THEN Outcome(appts, Coded("NOT_FOUND"))
    ELSE IF appts[id].status \notin {"cancelled", "completed", "no-show"}
    THEN Outcome(appts, Coded("CANNOT_DELETE_ACTIVE"))
    ELSE Outcome(Remove(appts, id), Succeeded(id))

\* the bodies of PUT /appointments/:id requests; an absent field is Null
NoUpdate == [status |-> Null, scheduledDate |-> Null, scheduledTimeSlot |-> Null,
             notes |-> Null, phone |-> Null]
UpdateRequests ==
    { [NoUpdate EXCEPT !.status = <<"c","o","n","f","i","r","m","e","d">>],
      [NoUpdate EXCEPT !.scheduledTimeSlot = <<"1","0",":","0","0">>],
      [NoUpdate EXCEPT !.scheduledTimeSlot = <<"1","0",":","3","0">>],
      [NoUpdate EXCEPT !.notes = <<"o","k">>] }

\* the status names as texts
StatusName(t) ==
    CASE t = <<"p","e","n","d","i","n","g">> -> "pending"
      [] t = <<"c","o","n","f","i","r","m","e","d">> -> "confirmed"
      [] t = <<"c","a","n","c","e","l","l","e","d">> -> "cancelled"
      [] t = <<"c","o","m","p","l","e","t","e","d">> -> "completed"
      [] t = <<"n","o","-","s","h","o","w">> -> "no-show"
      [] OTHER -> "invalid"

validateStatus(status) ==
    IF status # Null /\ StatusName(status) \notin APPOINTMENT_STATUS
    THEN <<Err("status", "INVALID_VALUE")>> ELSE <<>>

validateUpdateAppointment(data) ==
    (IF data.phone # Null THEN validatePhone(data.phone) ELSE <<>>)
        \o (IF data.scheduledDate # Null
            THEN validateScheduledDate(data.scheduledDate) ELSE <<>>)
        \o (IF data.scheduledTimeSlot # Null
            THEN validateTimeSlot(data.scheduledTimeSlot, data.scheduledDate) ELSE <<>>)
        \o validateStatus(data.status)

\* the slot a reschedule is checked against: other appointments only
slotTakenByOther(appts, id, date, timeSlot) ==
    \E other \in (DOMAIN appts) \ {id} :
        /\ appts[other].scheduledDate = date
        /\ appts[other].scheduledTimeSlot = timeSlot
        /\ appts[other].status \in ActiveStatuses

\* the code updateAppointment rejects the request with, "" when it saves
updateRejection(appts, id, updateData) ==
    LET appointment == appts[id]
        newDate == IF updateData.scheduledDate # Null
                   THEN dateFromString(updateData.scheduledDate)
                   ELSE appointment.scheduledDate
        newTimeSlot == IF updateData.scheduledTimeSlot # Null
                       THEN updateData.scheduledTimeSlot
                       ELSE appointment.scheduledTimeSlot
        dateChanged == \/ appointment.scheduledDate = Null
                       \/ newDate = Null
                       \/ appointment.scheduledDate # newDate
        timeChanged == newTimeSlot # appointment.scheduledTimeSlot
        hours == slotHours(newTimeSlot)
        minutes == slotMinutes(newTimeSlot)
        reschedule == /\ (updateData.scheduledDate # Null \/ updateData.scheduledTimeSlot # Null)
                      /\ (dateChanged \/ timeChanged)
    IN IF id \notin DOMAIN appts THEN "NOT_FOUND"
       ELSE IF appointment.status = "completed" /\ updateData.notes = Null
       THEN "ALREADY_COMPLETED"
       ELSE IF validateUpdateAppointment(updateData) # <<>> THEN "VALIDATION_ERRORS"
       ELSE IF ~reschedule THEN ""
       ELSE IF newDate # Null /\ DateBefore(newDate, Today) THEN "PAST_DATE"
       ELSE IF newDate # Null /\ ~isOperatingDay(newDate) THEN "CLOSED_DAY"
       ELSE IF newTimeSlot # Null /\ ~IsTimeSlotFormat(newTimeSlot) THEN "INVALID_TIME_FORMAT"
       ELSE IF newTimeSlot # Null /\ (hours < START_HOUR \/ hours >= END_HOUR)
       THEN "OUTSIDE_HOURS"
       ELSE IF newTimeSlot # Null /\ hours >= BREAK_START /\ hours < BREAK_END
       THEN "BREAK_TIME"
       ELSE IF newTimeSlot # Null /\ minutes % SLOT_DURATION # 0 THEN "INVALID_INTERVAL"
       ELSE IF newTimeSlot # Null /\ newDate = Today /\ hours * 60 + minutes <= NowMinutes
       THEN "TIME_PASSED"
       ELSE IF newDate # Null /\ newTimeSlot # Null
               /\ slotTakenByOther(appts, id, newDate, newTimeSlot)
       THEN "SLOT_TAKEN"
       ELSE ""

\* the document after the allowed fields of the request are copied into it
updatedAppointment(appointment, updateData) ==
    LET a1 == IF updateData.status # Null
              THEN [appointment EXCEPT !.status = StatusName(trim(updateData.status))]
              ELSE appointment
        a2 == IF updateData.scheduledDate # Null
              THEN [a1 EXCEPT !.scheduledDate = dateFromString(updateData.scheduledDate)]
              ELSE a1
        a3 == IF updateData.scheduledTimeSlot # Null
              THEN [a2 EXCEPT !.scheduledTimeSlot = trim(updateData.scheduledTimeSlot)]
              ELSE a2
        a4 == IF updateData.notes # Null
              THEN [a3 EXCEPT !.notes = trim(updateData.notes)]
              ELSE a3
        a5 == IF updateData.phone # Null
              THEN [a4 EXCEPT !.phone = trim(updateData.phone)]
              ELSE a4
    IN IF /\ (updateData.scheduledDate # Null \/ updateData.scheduledTimeSlot # Null)
          /\ a5.scheduledDate # Null /\ a5.scheduledTimeSlot # Null
       THEN [a5 EXCEPT !.preferredDateTime =
                formatDate(a5.scheduledDate) \o <<" ","a","t"," ">> \o a5.scheduledTimeSlot]
       ELSE a5

\* the date and the slot a reschedule asks for: the request's, or the stored
\* one for a field the request leaves out
newDateOf(appointment, updateData) ==
    IF updateData.scheduledDate # Null
    THEN dateFromString(updateData.scheduledDate)
    ELSE appointment.scheduledDate

newTimeSlotOf(appointment, updateData) ==
    IF updateData.scheduledTimeSlot # Null
    THEN updateData.scheduledTimeSlot
    ELSE appointment.scheduledTimeSlot

\* allSlots.filter(s => !bookedSlots.includes(s.time)
\*                      || s.time === appointment.scheduledTimeSlot).slice(0, 5)
rescheduleSlots(appts, date, ownTimeSlot) ==
    Take(FilterSeq(generateTimeSlots(date),
                   { s \in Range(generateTimeSlots(date)) :
                       \/ s.time \notin Range(getBookedSlots(appts, date))
                       \/ s.time = ownTimeSlot }), 5)

\* AppointmentService.updateAppointment
updateAppointment(appts, id, updateData) ==
    LET code == updateRejection(appts, id, updateData)
    IN IF code = "VALIDATION_ERRORS"
       THEN Outcome(appts, [Coded("") EXCEPT !.errors = validateUpdateAppointment(updateData)])
       ELSE IF code = "SLOT_TAKEN"
       THEN Outcome(appts,
                    [Coded(code) EXCEPT
                        !.slotTaken = TRUE,
                        !.suggested = rescheduleSlots(appts,
                                          newDateOf(appts[id], updateData),
                                          appts[id].scheduledTimeSlot)])
       ELSE IF code # ""
       THEN Outcome(appts, Coded(code))
       ELSE Outcome([appts EXCEPT ![id] = updatedAppointment(appts[id], updateData)],
                    Succeeded(id))

-----------------------------------------------------------------------------
(* Running a handler *)

\* the step a handler takes at its position
step(store, proc) ==
    CASE proc.pc = "findSession" -> findSession(store, proc)
      [] proc.pc = "createSession" -> createSession(store, proc)
      [] proc.pc = "addUser" -> addUserMessage(store, proc)
      [] proc.pc = "getState" -> getBookingState(store, proc)
      [] proc.pc = "getHistory" -> getHistory(store, proc)
      [] proc.pc = "updFind" -> updFind(store, proc)
      [] proc.pc = "updSave" -> updSave(store, proc)
      [] proc.pc = "addBot" -> addBotMessage(store, proc)
      [] proc.pc = "caFindConv" -> caFindConv(store, proc)
      [] proc.pc = "caCheckSlot" -> caCheckSlot(store, proc)
      [] proc.pc = "caInsert" -> caInsert(store, proc)
      [] proc.pc = "caReset" -> caReset(store, proc)
      [] proc.pc = "dcCheckSlot" -> dcCheckSlot(store, proc)
      [] proc.pc = "dcSuggest" -> dcSuggest(store, proc)
      [] proc.pc = "dcFindDup" -> dcFindDup(store, proc)
      [] proc.pc = "dcInsert" -> dcInsert(store, proc)
      [] OTHER -> After(store, proc)

\* the handler runs from its position to its return with no other handler
\* in between
RECURSIVE run(_, _)
run(store, proc) ==
    IF proc.pc \in {"idle", "done"} THEN After(store, proc)
    ELSE LET next == step(store, proc) IN run(next.store, next.proc)

\* a store call throws.  ConversationService catches the error of each of its
\* calls and returns { success: false }; processMessage looks at that result
\* only for getOrCreateSession, and reads .state of getBookingState's;
\* createAppointment and createDirectAppointment catch and return a failure
storeFailure(proc) ==
    LET pc == proc.pc
        failed == [proc EXCEPT !.failed = @ \cup {pc}]
    IN CASE pc \in {"findSession", "createSession", "getState"} ->
              Finished(failed, ErrorResponse)
         [] pc = "addUser" -> [failed EXCEPT !.pc = "getState"]
         [] pc = "getHistory" ->
              [failed EXCEPT !.pc = "addBot",
                             !.result = Result(TRUE, generateResponse(proc.text).response, "")]
         [] pc \in {"updFind", "updSave"} -> [failed EXCEPT !.pc = "addBot"]
         [] pc = "addBot" -> [failed EXCEPT !.pc = "done"]
         [] pc \in {"caFindConv", "caCheckSlot", "caInsert", "caReset"} ->
              commitFailed(failed, "error")
         [] OTHER -> Finished(failed, InternalError)

Running(q) == procs[q].pc \notin {"idle", "done"}

\* handlers in flight that may still insert an appointment
Creating == { q \in Procs : Running(q) /\ procs[q].op \in {"chat", "direct"} }

MayStart(p) ==
    /\ ~Running(p)
    /\ turns < MaxTurns

MayStartCreating(p) ==
    /\ MayStart(p)
    /\ (nextId - 1) + Cardinality(Creating) < MaxAppointments

\* the handlers after p starts with record proc: the handlers in flight
\* learn that they overlap with another one
Started(p, proc) ==
    [q \in Procs |->
        IF q = p THEN [proc EXCEPT !.overlap = \E r \in Procs \ {p} : Running(r)]
        ELSE IF Running(q) THEN [procs[q] EXCEPT !.overlap = TRUE]
        ELSE procs[q]]

\* the variables after a step of handler p
Becomes(p, after) ==
    /\ conversations' = after.store.conversations
    /\ appointments' = after.store.appointments
    /\ nextId' = after.store.nextId
    /\ sent' = after.store.sent
    /\ procs' = [procs EXCEPT ![p] = after.proc]

-----------------------------------------------------------------------------
(* Requests served one at a time: each action is a whole request *)

\* ChatService.processMessage
ProcessMessage(sessionId, text) ==
    /\ MayStartCreating(1)
    /\ trim(text) # <<>>
    /\ Becomes(1, run(Store, startTurn(Store, sessionId, text)))
    /\ turns' = turns + 1
    /\ UNCHANGED faults

\* AppointmentService.createDirectAppointment
CreateDirectAppointment(data) ==
    /\ MayStartCreating(1)
    /\ Becomes(1, run(Store, startDirect(data)))
    /\ turns' = turns + 1
    /\ UNCHANGED faults

\* the variables after a request on one stored appointment
Served(p, op, outcome) ==
    /\ appointments' = outcome.appointments
    /\ procs' = Started(p, Finished([IdleProc EXCEPT !.op = op], outcome.result))
    /\ turns' = turns + 1
    /\ UNCHANGED <<conversations, nextId, faults, sent>>

UpdateStatus(p, id, newStatus) ==
    /\ MayStart(p)
    /\ Served(p, "updateStatus", updateStatus(appointments, id, newStatus))

CancelAppointment(p, id) ==
    /\ MayStart(p)
    /\ Served(p, "cancel", cancelAppointment(appointments, id))

DeleteAppointment(p, id) ==
    /\ MayStart(p)
    /\ Served(p, "delete", deleteAppointment(appointments, id))

UpdateAppointment(p, id, updateData) ==
    /\ MayStart(p)
    /\ Served(p, "update", updateAppointment(appointments, id, updateData))

StatusInputs == APPOINTMENT_STATUS \cup {"archived"}

Next ==
    \/ \E sessionId \in SessionIds, text \in Texts : ProcessMessage(sessionId, text)
    \/ \E data \in DirectRequests : CreateDirectAppointment(data)
    \/ \E id \in AppointmentIds, newStatus \in StatusInputs : UpdateStatus(1, id, newStatus)
    \/ \E id \in AppointmentIds : CancelAppointment(1, id)
    \/ \E id \in AppointmentIds : DeleteAppointment(1, id)
    \/ \E id \in AppointmentIds, updateData \in UpdateRequests :
          UpdateAppointment(1, id, updateData)

Spec == Init /\ [][Next]_vars

\* the chat endpoint and the booking form only: what a client of the widget
\* can do, without the admin operations on stored appointments
NextChat ==
    \/ \E sessionId \in SessionIds, text \in Texts : ProcessMessage(sessionId, text)
    \/ \E data \in DirectRequests : CreateDirectAppointment(data)

SpecChat == Init /\ [][NextChat]_vars
-----------------------------------------------------------------------------
(* Handlers running step by step: every await is one action, so that the
   steps of two handlers interleave and a store call can throw *)

MaxConcTurns == 2
MaxFaultTurns == 2

At(p, pc) == procs[p].pc = pc

\* the chat turns in flight on a session, other than p's
TurnsInFlight(p, sessionId) ==
    { q \in Procs \ {p} : /\ Running(q)
                          /\ procs[q].op = "chat"
                          /\ procs[q].sessionId = sessionId }

\* the persisted state of the session before the turns in flight on it began
Base(p, sessionId) ==
    IF TurnsInFlight(p, sessionId) = {}
    THEN BookingStateOf(conversations, sessionId)
    ELSE procs[CHOOSE q \in TurnsInFlight(p, sessionId) : TRUE].pre

\* POST /chat arrives
StartTurn(p, sessionId, text) ==
    /\ MayStartCreating(p)
    /\ trim(text) # <<>>
    /\ procs' = Started(p, [startTurn(Store, sessionId, text) EXCEPT
                               !.pre = Base(p, sessionId)])
    /\ turns' = turns + 1
    /\ UNCHANGED <<conversations, appointments, nextId, faults, sent>>

\* POST /appointments arrives
StartDirect(p, data) ==
    /\ MayStartCreating(p)
    /\ procs' = Started(p, startDirect(data))
    /\ turns' = turns + 1
    /\ UNCHANGED <<conversations, appointments, nextId, faults, sent>>

\* handler p takes the step its position names
Takes(p, pc, after) ==
    /\ At(p, pc)
    /\ Becomes(p, after)
    /\ UNCHANGED <<turns, faults>>

FindSession(p) == Takes(p, "findSession", findSession(Store, procs[p]))
CreateSession(p) == Takes(p, "createSession", createSession(Store, procs[p]))
AddUserMessage(p) == Takes(p, "addUser", addUserMessage(Store, procs[p]))
GetBookingState(p) == Takes(p, "getState", getBookingState(Store, procs[p]))
GetHistory(p) == Takes(p, "getHistory", getHistory(Store, procs[p]))
UpdFind(p) == Takes(p, "updFind", updFind(Store, procs[p]))
UpdSave(p) == Takes(p, "updSave", updSave(Store, procs[p]))
AddBotMessage(p) == Takes(p, "addBot", addBotMessage(Store, procs[p]))
CaFindConv(p) == Takes(p, "caFindConv", caFindConv(Store, procs[p]))
CaCheckSlot(p) == Takes(p, "caCheckSlot", caCheckSlot(Store, procs[p]))
CaInsert(p) == Takes(p, "caInsert", caInsert(Store, procs[p]))
CaReset(p) == Takes(p, "caReset", caReset(Store, procs[p]))
DcCheckSlot(p) == Takes(p, "dcCheckSlot", dcCheckSlot(Store, procs[p]))
DcSuggest(p) == Takes(p, "dcSuggest", dcSuggest(Store, procs[p]))
DcFindDup(p) == Takes(p, "dcFindDup", dcFindDup(Store, procs[p]))
DcInsert(p) == Takes(p, "dcInsert", dcInsert(Store, procs[p]))

\* the store call handler p is waiting for throws
StoreFails(p) ==
    /\ Running(p)
    /\ faults < MaxFaults
    /\ procs' = [procs EXCEPT ![p] = storeFailure(procs[p])]
    /\ faults' = faults + 1
    /\ UNCHANGED <<conversations, appointments, nextId, turns, sent>>

\* the steps of the chat turn and of the two ways to create an appointment
Steps(p) ==
    \/ FindSession(p)
    \/ CreateSession(p)
    \/ AddUserMessage(p)
    \/ GetBookingState(p)
    \/ GetHistory(p)
    \/ UpdFind(p)
    \/ UpdSave(p)
    \/ AddBotMessage(p)
    \/ CaFindConv(p)
    \/ CaCheckSlot(p)
    \/ CaInsert(p)
    \/ CaReset(p)
    \/ DcCheckSlot(p)
    \/ DcSuggest(p)
    \/ DcFindDup(p)
    \/ DcInsert(p)

\* a booking dialogue that reaches Confirming, and the sessions it leaves
\* behind when it is served up to any of its turns
Dialogue == <<TextBook, TextBook, TextBook, TextPhone, TextDate>>

InitStore ==
    [conversations |-> [s \in {} |-> NewConversation],
     appointments |-> [i \in {} |-> 0],
     nextId |-> 1,
     sent |-> [s \in SessionIds |-> EmptyData]]

RECURSIVE served(_, _, _)
served(store, sessionId, texts) ==
    IF texts = <<>> THEN store
    ELSE served(run(store, startTurn(store, sessionId, Head(texts))).store,
                sessionId, Tail(texts))

StoreIs(store) ==
    /\ conversations = store.conversations
    /\ appointments = store.appointments
    /\ nextId = store.nextId
    /\ sent = store.sent

\* the server with one session anywhere in its booking dialogue, no request
\* in flight
InitDialogue ==
    /\ \E k \in 0..Len(Dialogue) : StoreIs(served(InitStore, "s1", SubSeq(Dialogue, 1, k)))
    /\ procs = [p \in Procs |-> IdleProc]
    /\ turns = 0
    /\ faults = 0

ConcTexts == {TextBook, TextYes}

\* two handlers at a time, no store failure
NextConc ==
    \/ \E p \in Procs, sessionId \in SessionIds, text \in ConcTexts :
          turns < MaxConcTurns /\ StartTurn(p, sessionId, text)
    \/ \E p \in Procs : turns < MaxConcTurns /\ StartDirect(p, ReqA)
    \/ \E p \in Procs : Steps(p)

SpecConc == InitDialogue /\ [][NextConc]_vars

\* one handler at a time, its store calls may throw
NextFault ==
    \/ \E sessionId \in SessionIds, text \in Texts :
          turns < MaxFaultTurns /\ StartTurn(1, sessionId, text)
    \/ \E data \in DirectRequests : turns < MaxFaultTurns /\ StartDirect(1, data)
    \/ Steps(1)
    \/ StoreFails(1)

SpecFault == InitDialogue /\ [][NextFault]_vars
-----------------------------------------------------------------------------
(* Properties of the appointment store *)

Active(id) == appointments[id].status \in ActiveStatuses

SameSlot(i, j) ==
    /\ appointments[i].scheduledDate # Null
    /\ appointments[i].scheduledDate = appointments[j].scheduledDate
    /\ appointments[i].scheduledTimeSlot = appointments[j].scheduledTimeSlot

\* C1: after any sequence of appointment operations served one at a time, no
\* two stored appointments whose status is neither cancelled nor no-show
\* have the same scheduled date and time slot
NoDoubleBooking ==
    \A i, j \in DOMAIN appointments :
        (i # j /\ Active(i) /\ Active(j)) => ~SameSlot(i, j)

\* a slot that was booked again after its first appointment was cancelled
SlotBookedAgainAfterCancel ==
    \E i, j \in DOMAIN appointments :
        /\ i # j
        /\ SameSlot(i, j)
        /\ appointments[i].status = "cancelled"
        /\ Active(j)

\* a handler that has returned from an attempt to book a date and slot while
\* another handler was in flight
Attempt(p) ==
    /\ procs[p].pc = "done"
    /\ procs[p].overlap
    /\ procs[p].date # Null
    /\ \/ procs[p].op = "direct"
       \/ procs[p].op = "chat" /\ procs[p].flow.shouldSave

OverlappingCommits ==
    /\ \A p \in Procs : Attempt(p)
    /\ procs[1].date = procs[2].date
    /\ procs[1].timeSlot = procs[2].timeSlot

\* C2: of two overlapping attempts to book the same date and slot (chat
\* commits or direct creations) at most one inserts an appointment, and the
\* other is turned away because of the booking that exists (the slot-taken
\* outcome; the duplicate-booking outcome is counted with it)
AtMostOneCommits ==
    OverlappingCommits =>
        \E p, q \in Procs :
            /\ p # q
            /\ procs[p].inserted <= 1
            /\ procs[q].inserted = 0
            /\ procs[q].outcome \in {"slotTaken", "duplicate"}

\* both of two overlapping attempts on one slot have inserted
BothCommitsInserted ==
    /\ OverlappingCommits
    /\ \A p \in Procs : procs[p].inserted = 1
    /\ \E i, j \in DOMAIN appointments : i # j /\ Active(i) /\ Active(j) /\ SameSlot(i, j)

-----------------------------------------------------------------------------
(* Properties of overlapping chat turns *)

\* the store in which the session is at a given state of its dialogue and
\* nothing is booked
SessionAt(state) ==
    [InitStore EXCEPT
        !.conversations = [s \in {"s1"} |-> [NewConversation EXCEPT !.bookingState = state]]]

\* the persisted state after two turns served one after the other
serialState(state, first, second) ==
    BookingStateOf(served(SessionAt(state), "s1", <<first, second>>).conversations, "s1")

\* two answered turns on the session overlapped, and they are the only
\* requests so far
TurnsOverlapped ==
    /\ turns = 2
    /\ \A p \in Procs : /\ procs[p].op = "chat"
                        /\ procs[p].pc = "done"
                        /\ procs[p].overlap
                        /\ procs[p].sessionId = "s1"
                        /\ procs[p].result.success
    /\ procs[1].pre = procs[2].pre
    /\ Cardinality(DOMAIN appointments) = procs[1].inserted + procs[2].inserted

\* C3: when two processMessage calls of one session overlap, the persisted
\* bookingState after both have finished is the one that results from
\* serving the two turns one after the other, in one order or the other
OverlapIsSerial ==
    TurnsOverlapped =>
        BookingStateOf(conversations, "s1") \in
            { serialState(procs[1].pre, procs[1].raw, procs[2].raw),
              serialState(procs[1].pre, procs[2].raw, procs[1].raw) }

\* two overlapping turns both read CollectingOwnerName and both answered
\* with the question for the pet's name
BothTurnsReadSameState ==
    /\ TurnsOverlapped
    /\ \A p \in Procs : /\ procs[p].state.status = COLLECTING_OWNER_NAME
                        /\ procs[p].result.response = "ASK_PET_NAME"
-----------------------------------------------------------------------------
(* Properties of the booking dialogue, requests served one at a time *)

\* the chat turn that has just returned
Turn == procs[1]
TurnReturned == Turn.op = "chat" /\ Turn.pc = "done"

Persisted == BookingStateOf(conversations, Turn.sessionId)

Affirmative == { <<"y","e","s">>, <<"y">>, <<"c","o","n","f","i","r","m">> }
Negative == { <<"n","o">>, <<"n">>, <<"c","a","n","c","e","l">> }

Edges ==
    { <<IDLE, COLLECTING_OWNER_NAME>>,
      <<COLLECTING_OWNER_NAME, COLLECTING_PET_NAME>>,
      <<COLLECTING_PET_NAME, COLLECTING_PHONE>>,
      <<COLLECTING_PHONE, COLLECTING_DATE_TIME>>,
      <<COLLECTING_DATE_TIME, CONFIRMING>>,
      <<CONFIRMING, IDLE>> }

StatusOf(convs) == BookingStateOf(convs, "s1").status

\* C4: over any sequence of chat turns on a session the persisted status
\* stays where it is or moves along one edge: Idle, CollectingOwnerName,
\* CollectingPetName, CollectingPhone, CollectingDateTime, Confirming, Idle
StatusFollowsEdges ==
    [][\/ StatusOf(conversations') = StatusOf(conversations)
       \/ <<StatusOf(conversations), StatusOf(conversations')>> \in Edges]_vars

\* a dialogue went round the whole cycle: its appointment is stored and the
\* session is Idle again
DialogueWentRound ==
    /\ TurnReturned
    /\ Turn.state.status = CONFIRMING
    /\ StatusOf(conversations) = IDLE
    /\ \E id \in DOMAIN appointments : appointments[id].sessionId = "s1"

\* a turn that answered the confirmation question with no, n or cancel
CancelTurn ==
    /\ TurnReturned
    /\ Turn.state.status = CONFIRMING
    /\ toLowerCase(Turn.text) \in Negative

\* C5: a turn that says no, n or cancel in Confirming leaves the session
\* Idle with an empty tempData, creates no appointment and answers with
\* the cancellation message
CancelClears ==
    CancelTurn =>
        /\ Persisted = [status |-> IDLE, tempData |-> EmptyData]
        /\ Turn.inserted = 0
        /\ Turn.result.response = "BOOKING_CANCELLED"

\* a cancelled dialogue whose session is Idle and still holds the fields
CancelKeepsFields ==
    /\ CancelTurn
    /\ Persisted.status = IDLE
    /\ DOMAIN Persisted.tempData # {}

\* a turn that answered the confirmation question with yes, y or confirm
CommitTurn ==
    /\ TurnReturned
    /\ Turn.state.status = CONFIRMING
    /\ toLowerCase(Turn.text) \in Affirmative

CommitSucceeded == CommitTurn /\ Turn.outcome = "ok"

\* C6: a turn that says yes, y or confirm in Confirming and whose commit
\* succeeds inserts exactly one appointment, linked to the session and
\* pending, and leaves the session Idle with an empty tempData
CommitInsertsOne ==
    CommitSucceeded =>
        /\ Turn.inserted = 1
        /\ nextId = Turn.result.appointmentId + 1
        /\ Turn.result.appointmentId \in DOMAIN appointments
        /\ appointments[Turn.result.appointmentId].sessionId = Turn.sessionId
        /\ appointments[Turn.result.appointmentId].status = "pending"
        /\ Persisted = [status |-> IDLE, tempData |-> EmptyData]

\* a commit that succeeded for a dialogue that had collected four fields
CommitWithFields ==
    /\ CommitSucceeded
    /\ Turn.result.success
    /\ DOMAIN Turn.state.tempData # {}

CollectedFields == {"ownerName", "petName", "phone", "preferredDateTime"}

\* C7: the tempData handed to the commit has exactly the four collected
\* fields, each the trimmed text the user sent in its state, and the stored
\* appointment holds those same values
CommitStoresWhatWasSent ==
    /\ CommitTurn =>
          /\ DOMAIN Turn.flow.tempData = CollectedFields
          /\ \A f \in CollectedFields :
                Turn.flow.tempData[f] = trim(sent[Turn.sessionId][f])
    /\ CommitSucceeded =>
          \A f \in CollectedFields :
              appointments[Turn.result.appointmentId][f] = trim(sent[Turn.sessionId][f])

\* a stored appointment whose owner's name was sent with spaces around it
\* and differs from the pet's name
CommitOfPaddedName ==
    /\ CommitSucceeded
    /\ sent[Turn.sessionId]["ownerName"] = TextBook
    /\ sent[Turn.sessionId]["petName"] = TextPhone
    /\ appointments[Turn.result.appointmentId].ownerName = <<"B","o","o","k">>

\* a commit that found its slot taken
CommitSlotTaken == CommitTurn /\ Turn.outcome = "slotTaken"

\* C8: when the commit fails because the slot is no longer available, no
\* appointment is inserted, the persisted status becomes CollectingDateTime
\* and the response asks for a new date and time
SlotTakenRestartsDateTime ==
    CommitSlotTaken =>
        /\ Turn.inserted = 0
        /\ Persisted.status = COLLECTING_DATE_TIME
        /\ Turn.result.response \in {"ASK_DATE_TIME", "PROVIDE_DATE_TIME"}

\* a commit that found its slot taken and left the session in Confirming
SlotTakenStaysConfirming ==
    /\ CommitSlotTaken
    /\ Turn.inserted = 0
    /\ Persisted.status = CONFIRMING

\* the name of the kind of a conflict
ConflictCode(outcome) ==
    IF outcome = "slotTaken" THEN "SLOT_TAKEN" ELSE "DUPLICATE_BOOKING"

\* what the caller of a booking attempt receives when the store fails in it
StoreFailureResult(proc) ==
    storeFailure([proc EXCEPT !.pc = IF proc.op = "chat" THEN "caCheckSlot"
                                     ELSE "dcCheckSlot"]).result

\* C9: a booking attempt (chat commit or direct creation) that fails because
\* the slot is taken or the booking is a duplicate returns an outcome that
\* names that kind and differs from the outcome of a store failure
ConflictIsReported ==
    \A p \in Procs :
        (procs[p].pc = "done" /\ procs[p].outcome \in {"slotTaken", "duplicate"}) =>
            /\ procs[p].result.code = ConflictCode(procs[p].outcome)
            /\ procs[p].result # StoreFailureResult(procs[p])

\* a chat commit that found its slot taken and returned what a store
\* failure returns
ConflictLooksLikeFailure ==
    /\ CommitSlotTaken
    /\ Turn.result.code = ""
    /\ Turn.result = StoreFailureResult(Turn)

-----------------------------------------------------------------------------
(* Properties of a chat turn in which a store call throws *)

FailedTurn == TurnReturned /\ Turn.failed # {}

\* C10: when a store call fails during a chat turn, the persisted
\* bookingState after the turn is the one before the turn and the turn
\* returns the generic error response
FailureLeavesState ==
    FailedTurn =>
        /\ Persisted = Turn.pre
        /\ Turn.result = ErrorResponse

\* the append of the user's message failed, and the turn went on, moved the
\* dialogue and answered as if nothing had happened
FailureSwallowed ==
    /\ FailedTurn
    /\ Turn.failed = {"addUser"}
    /\ Turn.result.success
    /\ Persisted # Turn.pre
-----------------------------------------------------------------------------
(* The date and time texts of the dialogue *)

TextLunch == <<"t","o","m","o","r","r","o","w"," ","1","p","m">>
TextHello == <<"h","e","l","l","o">>
DateTexts == {TextDate, TextLunch, TextHello}

\* a session anywhere in its dialogue answers the question for the date and
\* time with one of the texts, and confirms; the booking form is used as well
NextDates ==
    \/ \E sessionId \in SessionIds, text \in DateTexts \cup {TextYes, TextBook} :
          ProcessMessage(sessionId, text)
    \/ \E data \in DirectRequests : CreateDirectAppointment(data)

SpecDates == InitDialogue /\ [][NextDates]_vars

\* the codes of the validator's rules for the date and for the slot grid
DateRuleCodes == {"INVALID_FORMAT", "PAST_DATE", "TOO_FAR_FUTURE", "CLOSED_DAY"}
GridRuleCodes == {"INVALID_FORMAT", "OUTSIDE_HOURS", "BREAK_TIME", "INVALID_INTERVAL"}

Codes(errors) == { errors[i].code : i \in DOMAIN errors }

\* the stored date and slot pass the validator's date and grid rules
OnGrid(appointment) ==
    /\ Codes(validateScheduledDate(formatDate(appointment.scheduledDate)))
          \cap DateRuleCodes = {}
    /\ Codes(validateTimeSlot(appointment.scheduledTimeSlot,
                              formatDate(appointment.scheduledDate)))
          \cap GridRuleCodes = {}

\* C11: every appointment inserted by the chat commit or by
\* createDirectAppointment with a date and a slot satisfies the validator's
\* rules: the date is not before today, at most 90 days ahead and an
\* operating day; the slot has hour 9 to 17, is outside the lunch window and
\* has minutes 00 or 30 (no operation of SpecDates changes an appointment
\* after its insertion, and the clock stands still)
InsertedOnGrid ==
    \A id \in DOMAIN appointments :
        (appointments[id].scheduledDate # Null /\ appointments[id].scheduledTimeSlot # Null)
            => OnGrid(appointments[id])

\* the chat commit stored an appointment in the lunch window
LunchSlotBooked ==
    /\ CommitSucceeded
    /\ appointments[Turn.result.appointmentId].preferredDateTime = TextLunch
    /\ appointments[Turn.result.appointmentId].scheduledTimeSlot = <<"1","3",":","0","0">>
    /\ appointments[Turn.result.appointmentId].scheduledDate = AddDays(Today, 1)

\* C12: every stored appointment has a scheduled date and a scheduled time
\* slot, whatever text of at least 5 characters the dialogue accepted as the
\* preferred date and time
EveryAppointmentScheduled ==
    \A id \in DOMAIN appointments :
        /\ appointments[id].scheduledDate # Null
        /\ appointments[id].scheduledTimeSlot # Null

\* the chat commit stored an appointment for a text that names no date
UnparsedTextBooked ==
    /\ CommitSucceeded
    /\ appointments[Turn.result.appointmentId].preferredDateTime = TextHello
    /\ Len(TextHello) >= 5
    /\ appointments[Turn.result.appointmentId].scheduledDate = Null
    /\ appointments[Turn.result.appointmentId].scheduledTimeSlot = Null
-----------------------------------------------------------------------------
(* Direct creations for one phone number written in two ways *)

ReqD == [ReqA EXCEPT !.phone = TextPhone]
ReqE == [ReqB EXCEPT !.phone = TextPhone]
PhoneRequests == {ReqA, ReqB, ReqD, ReqE}

\* the booking form and the cancellation of a booking, one request at a time
NextDirect ==
    \/ \E data \in PhoneRequests : CreateDirectAppointment(data)
    \/ \E id \in AppointmentIds : CancelAppointment(1, id)

SpecDirect == Init /\ [][NextDirect]_vars

\* two stored appointments are of the same phone number
SamePhone(i, j) ==
    stripSeparators(appointments[i].phone) = stripSeparators(appointments[j].phone)

\* C13: a direct creation whose phone and date match an appointment that is
\* neither cancelled nor no-show is refused, in whatever accepted format the
\* phone is written; so after any sequence of direct creations no two active
\* appointments have the same phone and the same date
OnePerPhoneAndDate ==
    \A i, j \in DOMAIN appointments :
        (i # j /\ Active(i) /\ Active(j) /\ SamePhone(i, j))
            => appointments[i].scheduledDate # appointments[j].scheduledDate

\* the same hyphenated phone number was booked twice for one day by the form
HyphenatedPhoneBookedTwice ==
    /\ Turn.op = "direct" /\ Turn.pc = "done" /\ Turn.result.success
    /\ \E i, j \in DOMAIN appointments :
          /\ i # j
          /\ Active(i) /\ Active(j)
          /\ appointments[i].phone = TextPhone
          /\ appointments[j].phone = TextPhone
          /\ isValidPhone(TextPhone) /\ validatePhone(TextPhone) = <<>>
          /\ appointments[i].scheduledDate = appointments[j].scheduledDate
          /\ appointments[i].scheduledTimeSlot # appointments[j].scheduledTimeSlot
-----------------------------------------------------------------------------
(* The operations on stored appointments, without the chat *)

NextAdmin ==
    \/ \E data \in DirectRequests : CreateDirectAppointment(data)
    \/ \E id \in AppointmentIds, newStatus \in StatusInputs : UpdateStatus(1, id, newStatus)
    \/ \E id \in AppointmentIds : CancelAppointment(1, id)
    \/ \E id \in AppointmentIds : DeleteAppointment(1, id)
    \/ \E id \in AppointmentIds, updateData \in UpdateRequests :
          UpdateAppointment(1, id, updateData)

SpecAdmin == Init /\ [][NextAdmin]_vars

Deletable == {"cancelled", "completed", "no-show"}

\* C14: deleteAppointment removes an appointment only when its status is
\* cancelled, completed or no-show; for a pending or confirmed appointment
\* it returns an error and the store stays as it is
DeleteNeedsInactive ==
    [][\A id \in AppointmentIds :
          /\ (id \in DOMAIN appointments /\ id \notin DOMAIN appointments')
                => appointments[id].status \in Deletable
          /\ (/\ DeleteAppointment(1, id)
              /\ id \in DOMAIN appointments
              /\ appointments[id].status \in {"pending", "confirmed"})
                => /\ appointments' = appointments
                   /\ ~procs'[1].result.success
                   /\ procs'[1].result.code = "CANNOT_DELETE_ACTIVE"]_vars

\* a delete was refused for an appointment that is pending or confirmed,
\* after another appointment had been deleted
DeleteRefusedAfterDelete ==
    /\ Turn.op = "delete"
    /\ Turn.result.code = "CANNOT_DELETE_ACTIVE"
    /\ \E id \in DOMAIN appointments : appointments[id].status \in {"pending", "confirmed"}
    /\ \E id \in 1..(nextId - 1) : id \notin DOMAIN appointments

\* C15: an appointment is created pending, and no operation moves a
\* cancelled, completed or no-show appointment back to pending or confirmed
StatusOnlyAdvances ==
    [][/\ \A id \in (DOMAIN appointments') \ (DOMAIN appointments) :
             appointments'[id].status = "pending"
       /\ \A id \in (DOMAIN appointments) \cap (DOMAIN appointments') :
             appointments[id].status \in Deletable
                => appointments'[id].status \notin {"pending", "confirmed"}]_vars

\* a status update made an appointment active again whose slot had been
\* booked by a later appointment while it was cancelled or no-show
ReactivatedBesideLaterBooking ==
    /\ Turn.op \in {"updateStatus", "update"}
    /\ Turn.result.success
    /\ Turn.result.appointmentId \in DOMAIN appointments
    /\ appointments[Turn.result.appointmentId].status = "confirmed"
    /\ \E j \in DOMAIN appointments :
          /\ j > Turn.result.appointmentId
          /\ Active(j)
          /\ SameSlot(Turn.result.appointmentId, j)
-----------------------------------------------------------------------------
(* ConversationService.getOrCreateSession as a request of its own *)

\* the call returns the document in { success: true, conversation }
GetOrCreateSession(sessionId, context) ==
    /\ MayStart(1)
    /\ conversations' = findOrCreateSession(conversations, sessionId, context).conversations
    /\ procs' = Started(1, Finished([IdleProc EXCEPT
                   !.op = "session", !.sessionId = sessionId, !.context = context,
                   !.conversation =
                       findOrCreateSession(conversations, sessionId, context).conversation],
                   Result(TRUE, "", "")))
    /\ turns' = turns + 1
    /\ UNCHANGED <<appointments, nextId, faults, sent>>

\* ConversationService.resetBookingState: the state of a stored session is
\* replaced by { status: IDLE, tempData: {} }
resetBookingState(convs, sessionId) ==
    IF sessionId \in DOMAIN convs
    THEN [convs EXCEPT ![sessionId].bookingState =
             [status |-> IDLE, tempData |-> EmptyData]]
    ELSE convs

\* DELETE /chat/session/:sessionId: the controller answers success whatever
\* resetBookingState returns
ResetSession(sessionId) ==
    /\ MayStart(1)
    /\ conversations' = resetBookingState(conversations, sessionId)
    /\ procs' = Started(1, Finished([IdleProc EXCEPT
                   !.op = "reset", !.sessionId = sessionId,
                   !.pre = BookingStateOf(conversations, sessionId)],
                   Result(TRUE, "", "")))
    /\ turns' = turns + 1
    /\ UNCHANGED <<appointments, nextId, faults, sent>>

\* sessions are opened, with any context, and reset between the turns of the
\* chat
NextSessions ==
    \/ \E sessionId \in SessionIds, context \in Contexts :
          GetOrCreateSession(sessionId, context)
    \/ \E sessionId \in SessionIds : ResetSession(sessionId)
    \/ \E sessionId \in SessionIds, text \in Texts : ProcessMessage(sessionId, text)

SpecSessions == Init /\ [][NextSessions]_vars

\* C16: findOrCreateSession called for a session id that is stored returns
\* the stored conversation and changes nothing in the store, whatever
\* context it is given; called twice in a row it returns the same
\* conversation both times (the collection holds one document for an id:
\* sessionId is unique)
SessionIsIdempotent ==
    [][\A s \in SessionIds, c \in Contexts :
          GetOrCreateSession(s, c) =>
              /\ s \in DOMAIN conversations =>
                    /\ conversations' = conversations
                    /\ procs'[1].conversation = conversations[s]
              /\ (procs[1].op = "session" /\ procs[1].sessionId = s) =>
                    procs'[1].conversation = procs[1].conversation
              /\ DOMAIN conversations' = (DOMAIN conversations) \cup {s}]_vars

\* the second call was given another context than the one stored, for a
\* session that has a dialogue under way
SessionFoundWithOtherContext ==
    /\ Turn.op = "session"
    /\ Turn.pc = "done"
    /\ Turn.context = ContextApp
    /\ Turn.conversation.context = sessionContext(ContextWeb)
    /\ Turn.conversation.messages # <<>>
    /\ Turn.conversation.bookingState.status # IDLE
    /\ conversations[Turn.sessionId] = Turn.conversation
-----------------------------------------------------------------------------
(* Properties of the message log *)

IsPrefix(a, b) == Len(a) <= Len(b) /\ SubSeq(b, 1, Len(a)) = a

\* the log of the session of the turn that has just returned
TurnLog ==
    IF Turn.sessionId \in DOMAIN conversations
    THEN conversations[Turn.sessionId].messages ELSE <<>>

\* the log ends with a user message followed by the bot message of the
\* response
EndsWithExchange(log, response) ==
    /\ Len(log) >= 2
    /\ log[Len(log) - 1].role = "user"
    /\ log[Len(log)] = Message("bot", response)

\* C17: the message log of a session is append-only and ordered: every step
\* leaves the entries it had where they were, and a chat turn that returns
\* success has appended the user's message followed by one bot message
LogIsAppendOnly ==
    [][/\ \A s \in DOMAIN conversations :
             /\ s \in DOMAIN conversations'
             /\ IsPrefix(conversations[s].messages, conversations'[s].messages)
       /\ (TurnReturned /\ Turn.result.success
              => EndsWithExchange(TurnLog, Turn.result.response))']_vars

\* a turn returned success although the append of the user's message had
\* failed: the log holds its bot message and no user message before it
UserMessageMissing ==
    /\ TurnReturned
    /\ Turn.result.success
    /\ Turn.failed = {"addUser"}
    /\ TurnLog # <<>>
    /\ TurnLog[Len(TurnLog)] = Message("bot", Turn.result.response)
    /\ (Len(TurnLog) >= 2 => TurnLog[Len(TurnLog) - 1].role = "bot")
-----------------------------------------------------------------------------
(* Properties of the persisted booking state *)

\* from old to new no field is lost, and only the field named changes
GrowsBy(old, new, field) ==
    /\ DOMAIN old \subseteq DOMAIN new
    /\ \A f \in DOMAIN new :
          f # field => (f \in DOMAIN old /\ new[f] = old[f])

\* C18: between two resets of a session to Idle the persisted tempData never
\* loses a field: a step that does not leave the session Idle leaves
\* tempData as it is or adds or overwrites the one field that the state it
\* started in collects
TempDataOnlyGrows ==
    [][\A s \in DOMAIN conversations :
          \/ BookingStateOf(conversations', s).status = IDLE
          \/ BookingStateOf(conversations', s).tempData = conversations[s].bookingState.tempData
          \/ GrowsBy(conversations[s].bookingState.tempData,
                     BookingStateOf(conversations', s).tempData,
                     FieldOf(conversations[s].bookingState.status))]_vars

\* the turn that collected the pet's name added it to the owner's name
PetNameAddedToOwnerName ==
    /\ TurnReturned
    /\ Turn.pre.status = COLLECTING_PET_NAME
    /\ DOMAIN Turn.pre.tempData = {"ownerName"}
    /\ Persisted.status = COLLECTING_PHONE
    /\ DOMAIN Persisted.tempData = {"ownerName", "petName"}
    /\ Persisted.tempData["ownerName"] = Turn.pre.tempData["ownerName"]

\* C19: the status Completed is never left in the store: whether the commit
\* of a chat turn succeeded or failed, the persisted status of the session
\* is not Completed
NeverCompleted ==
    \A s \in DOMAIN conversations : conversations[s].bookingState.status # COMPLETED

\* a commit whose transition returned Completed failed after its insert, and
\* the session is left in Confirming
CommitFailedAfterInsert ==
    /\ CommitTurn
    /\ Turn.flow.nextState = COMPLETED
    /\ Turn.outcome = "error"
    /\ Turn.inserted = 1
    /\ Persisted.status = CONFIRMING
-----------------------------------------------------------------------------
(* Two sessions: the turns of handler 1 are on s1, those of handler 2 on s2,
   and their steps interleave *)

BothSessions == {"s1", "s2"}

SessionOf(p) == IF p = 1 THEN "s1" ELSE "s2"

StoreTwo == [InitStore EXCEPT !.sent = [s \in BothSessions |-> EmptyData]]

\* each of the two sessions is anywhere in its booking dialogue
InitTwo ==
    /\ \E k1, k2 \in 0..Len(Dialogue) :
          StoreIs(served(served(StoreTwo, "s1", SubSeq(Dialogue, 1, k1)),
                         "s2", SubSeq(Dialogue, 1, k2)))
    /\ procs = [p \in Procs |-> IdleProc]
    /\ turns = 0
    /\ faults = 0

\* the steps of a chat turn
ChatSteps(p) ==
    \/ FindSession(p)
    \/ CreateSession(p)
    \/ AddUserMessage(p)
    \/ GetBookingState(p)
    \/ GetHistory(p)
    \/ UpdFind(p)
    \/ UpdSave(p)
    \/ AddBotMessage(p)
    \/ CaFindConv(p)
    \/ CaCheckSlot(p)
    \/ CaInsert(p)
    \/ CaReset(p)

NextTwo ==
    \/ \E p \in Procs, text \in ConcTexts :
          turns < MaxConcTurns /\ StartTurn(p, SessionOf(p), text)
    \/ \E p \in Procs : ChatSteps(p)

SpecTwo == InitTwo /\ [][NextTwo]_vars

\* the store that holds nothing but one session in a given state
OnlySession(sessionId, state) ==
    [StoreTwo EXCEPT !.conversations =
        [s \in {sessionId} |-> [NewConversation EXCEPT !.bookingState = state]]]

\* the turn of a handler served with no other session and no appointment of
\* another session in the store
Alone(proc) ==
    run(OnlySession(proc.sessionId, proc.pre),
        startTurn(OnlySession(proc.sessionId, proc.pre), proc.sessionId, proc.raw))

\* the response and the transition of a turn are those of the turn alone
SameOutcome(proc, alone, state) ==
    /\ proc.result.success = alone.proc.result.success
    /\ proc.result.response = alone.proc.result.response
    /\ state = BookingStateOf(alone.store.conversations, proc.sessionId)

SameAsAlone(p) ==
    SameOutcome(procs[p], Alone(procs[p]),
                BookingStateOf(conversations, procs[p].sessionId))

Answered(p) == procs[p].op = "chat" /\ procs[p].pc = "done"

\* a step of handler p leaves the documents of the other sessions alone
LeavesOthers(p) ==
    \A s \in BothSessions \ {procs[p].sessionId} :
        /\ s \in DOMAIN conversations' <=> s \in DOMAIN conversations
        /\ s \in DOMAIN conversations => conversations'[s] = conversations[s]

-----------------------------------------------------------------------------
(* The availability queries GET /available-slots/:date and
   GET /available-dates beside the operations that store appointments *)

\* slot => ({ ...slot, available: !bookedSlots.includes(slot.time) })
withAvailability(allSlots, bookedSlots) ==
    [i \in DOMAIN allSlots |->
        [time |-> allSlots[i].time, display |-> allSlots[i].display,
         available |-> allSlots[i].time \notin Range(bookedSlots)]]

SlotsAnswer(success, isOperating, slots, total, booked) ==
    [success |-> success, isOperatingDay |-> isOperating, slots |-> slots,
     totalSlots |-> total,
     availableCount |-> Cardinality({ i \in DOMAIN slots : slots[i].available }),
     bookedCount |-> booked]

\* the answer of getAvailableSlots for an operating day that is not past
slotsOfDay(allSlots, bookedSlots) ==
    SlotsAnswer(TRUE, TRUE, withAvailability(allSlots, bookedSlots),
                Len(allSlots), Len(bookedSlots))

\* AppointmentService.getAvailableSlots; targetDate is the day of the text,
\* Null for an Invalid Date, whose toISOString throws into the catch.  The
\* answers for a closed day and the failures carry no counts (0 here)
slotsFor(appts, targetDate) ==
    IF targetDate = Null THEN SlotsAnswer(FALSE, FALSE, <<>>, 0, 0)
    ELSE IF ~isOperatingDay(targetDate) THEN SlotsAnswer(TRUE, FALSE, <<>>, 0, 0)
    ELSE IF DateBefore(targetDate, Today) THEN SlotsAnswer(FALSE, FALSE, <<>>, 0, 0)
    ELSE slotsOfDay(generateTimeSlots(targetDate), getBookedSlots(appts, targetDate))

getAvailableSlots(appts, date) == slotsFor(appts, dateFromString(date))

\* one entry of getAvailableDates
dateEntry(date, isOperating, bookedSlots, totalSlots) ==
    [date |-> date, isOperating |-> isOperating,
     availableSlots |-> totalSlots - Len(bookedSlots),
     isFull |-> isOperating /\ totalSlots - Len(bookedSlots) = 0]

entryOf(appts, date) ==
    dateEntry(date, isOperatingDay(date),
              IF isOperatingDay(date) THEN getBookedSlots(appts, date) ELSE <<>>,
              IF isOperatingDay(date) THEN Len(generateTimeSlots(date)) ELSE 0)

\* AppointmentService.getAvailableDates: today and the days after it; an
\* entry names its day (the model keeps the day, not its ISO text)
getAvailableDates(appts, days) ==
    [i \in 1..days |-> entryOf(appts, AddDays(Today, i - 1))]

\* the dates asked for: the Sunday before today, yesterday, today, tomorrow,
\* the Sunday after today, and a text that is no date
DateSunday == <<"2","0","2","6","-","0","2","-","0","1">>
DateLastSunday == <<"2","0","2","6","-","0","1","-","2","5">>
DateYesterday == <<"2","0","2","6","-","0","1","-","2","8">>
DateToday == <<"2","0","2","6","-","0","1","-","2","9">>
QueryDates == {DateLastSunday, DateYesterday, DateToday, DateTomorrow, DateSunday, TextHello}
QueryDays == {4}

\* the requests that change the store, per behaviour
MaxSlotTurns == 3

\* a query leaves the store alone; its answer goes to the caller (queries
\* are not counted among the requests that the bound on turns limits)
Answers(op, raw, answer) ==
    /\ ~Running(1)
    /\ procs' = Started(1, Finished([IdleProc EXCEPT !.op = op, !.raw = raw,
                                                     !.answer = answer],
                                    Result(TRUE, "", "")))
    /\ UNCHANGED <<conversations, appointments, nextId, turns, faults, sent>>

\* AppointmentController.getAvailableSlots
GetAvailableSlots(date) ==
    Answers("slots", date, getAvailableSlots(appointments, date))

\* AppointmentController.getAvailableDates
GetAvailableDates(days) ==
    Answers("dates", days, getAvailableDates(appointments, days))

\* a session anywhere in its dialogue, the booking form, cancellations and
\* the two queries, one request at a time
NextSlots ==
    \/ \E text \in {TextLunch, TextYes} :
          turns < MaxSlotTurns /\ ProcessMessage("s1", text)
    \/ \E data \in {ReqA, ReqB} : turns < MaxSlotTurns /\ CreateDirectAppointment(data)
    \/ \E id \in AppointmentIds : turns < MaxSlotTurns /\ CancelAppointment(1, id)
    \/ \E id \in AppointmentIds :
          turns < MaxSlotTurns /\ UpdateStatus(1, id, "no-show")
    \/ \E date \in QueryDates : GetAvailableSlots(date)
    \/ \E days \in QueryDays : GetAvailableDates(days)

SpecSlots == InitDialogue /\ [][NextSlots]_vars

\* the day a slots query asked for, and whether the clinic is open on it and
\* it is not past
AskedDay == dateFromString(Turn.raw)
SlotsAsked == Turn.op = "slots" /\ Turn.pc = "done"
DatesAsked == Turn.op = "dates" /\ Turn.pc = "done"
Bookable(day) == day # Null /\ isOperatingDay(day) /\ ~DateBefore(day, Today)

\* the grid of an operating day as the specification lists it
OperatingDayGrid ==
    <<[time |-> <<"0","9",":","0","0">>,
        display |-> <<"9",":","0","0"," ","A","M">>],
       [time |-> <<"0","9",":","3","0">>,
        display |-> <<"9",":","3","0"," ","A","M">>],
       [time |-> <<"1","0",":","0","0">>,
        display |-> <<"1","0",":","0","0"," ","A","M">>],
       [time |-> <<"1","0",":","3","0">>,
        display |-> <<"1","0",":","3","0"," ","A","M">>],
       [time |-> <<"1","1",":","0","0">>,
        display |-> <<"1","1",":","0","0"," ","A","M">>],
       [time |-> <<"1","1",":","3","0">>,
        display |-> <<"1","1",":","3","0"," ","A","M">>],
       [time |-> <<"1","2",":","0","0">>,
        display |-> <<"1","2",":","0","0"," ","P","M">>],
       [time |-> <<"1","2",":","3","0">>,
        display |-> <<"1","2",":","3","0"," ","P","M">>],
       [time |-> <<"1","4",":","0","0">>,
        display |-> <<"2",":","0","0"," ","P","M">>],
       [time |-> <<"1","4",":","3","0">>,
        display |-> <<"2",":","3","0"," ","P","M">>],
       [time |-> <<"1","5",":","0","0">>,
        display |-> <<"3",":","0","0"," ","P","M">>],
       [time |-> <<"1","5",":","3","0">>,
        display |-> <<"3",":","3","0"," ","P","M">>],
       [time |-> <<"1","6",":","0","0">>,
        display |-> <<"4",":","0","0"," ","P","M">>],
       [time |-> <<"1","6",":","3","0">>,
        display |-> <<"4",":","3","0"," ","P","M">>],
       [time |-> <<"1","7",":","0","0">>,
        display |-> <<"5",":","0","0"," ","P","M">>],
       [time |-> <<"1","7",":","3","0">>,
        display |-> <<"5",":","3","0"," ","P","M">>]>>

\* the slots of an answer without their availability flags
GridOf(slots) ==
    [i \in DOMAIN slots |-> [time |-> slots[i].time, display |-> slots[i].display]]

\* C21: for an operating day generateTimeSlots returns, in ascending order,
\* exactly the 16 slots HH:MM with HH in 9..17 except 13 and MM in {00, 30},
\* each with its 12-hour label, and getAvailableSlots answers with that grid
GridOfOperatingDay ==
    /\ \A date \in QueryDates \ {TextHello} :
          isOperatingDay(dateFromString(date))
              => generateTimeSlots(dateFromString(date)) = OperatingDayGrid
    /\ (SlotsAsked /\ Turn.answer.success /\ Turn.answer.isOperatingDay)
          => GridOf(Turn.answer.slots) = OperatingDayGrid

\* the slots of tomorrow were asked for: 16 slots, 12:00 labelled 12:00 PM
\* and 14:30 labelled 2:30 PM
GridOfTomorrowAnswered ==
    /\ SlotsAsked
    /\ Turn.raw = DateTomorrow
    /\ Len(Turn.answer.slots) = 16
    /\ Turn.answer.slots[7].time = <<"1","2",":","0","0">>
    /\ Turn.answer.slots[7].display = <<"1","2",":","0","0"," ","P","M">>
    /\ Turn.answer.slots[10].time = <<"1","4",":","3","0">>
    /\ Turn.answer.slots[10].display = <<"2",":","3","0"," ","P","M">>

\* C22: for a date that is a Sunday or before today the grid of
\* generateTimeSlots is empty, and the answer of getAvailableSlots marks no
\* slot available
ClosedDayOffersNothing ==
    (SlotsAsked /\ AskedDay # Null /\ ~Bookable(AskedDay))
        => /\ generateTimeSlots(AskedDay) = <<>>
           /\ \A i \in DOMAIN Turn.answer.slots : ~Turn.answer.slots[i].available

\* the slots of a Sunday were asked for: the answer lists none, the grid of
\* generateTimeSlots for that day has 16
SundayHasGrid ==
    /\ SlotsAsked
    /\ Turn.raw = DateSunday
    /\ getDay(AskedDay) = 0
    /\ Turn.answer.success /\ ~Turn.answer.isOperatingDay
    /\ Turn.answer.slots = <<>>
    /\ Len(generateTimeSlots(AskedDay)) = 16

\* an appointment that is neither cancelled nor no-show holds the slot
Held(appts, date, timeSlot) ==
    \E id \in DOMAIN appts :
        /\ appts[id].scheduledDate = date
        /\ appts[id].scheduledTimeSlot = timeSlot
        /\ appts[id].status \notin {"cancelled", "no-show"}

SlotAgrees(date, slot) ==
    /\ slot.available <=> ~Held(appointments, date, slot.time)
    /\ slot.available <=> isSlotAvailable(appointments, date, slot.time)

\* C23: for an operating date that is not past, getAvailableSlots marks a
\* slot of the grid available exactly when no appointment other than a
\* cancelled or no-show one holds that date and slot, the flag agrees with
\* isSlotAvailable, and availableCount is the number of slots marked
AvailabilityAgrees ==
    (SlotsAsked /\ Bookable(AskedDay))
        => /\ Turn.answer.success
           /\ GridOf(Turn.answer.slots) = generateTimeSlots(AskedDay)
           /\ \A i \in DOMAIN Turn.answer.slots :
                 SlotAgrees(AskedDay, Turn.answer.slots[i])
           /\ Turn.answer.availableCount =
                 Cardinality({ i \in DOMAIN Turn.answer.slots :
                                  Turn.answer.slots[i].available })

\* the slots of tomorrow were asked for while one booking holds 10:00 and a
\* cancelled one had held 10:30
BookedAndCancelledAsked ==
    /\ SlotsAsked
    /\ Turn.raw = DateTomorrow
    /\ \E i, j \in DOMAIN appointments :
          /\ appointments[i].status = "pending"
          /\ appointments[i].scheduledDate = AskedDay
          /\ appointments[i].scheduledTimeSlot = <<"1","0",":","0","0">>
          /\ appointments[j].status = "cancelled"
          /\ appointments[j].scheduledDate = AskedDay
          /\ appointments[j].scheduledTimeSlot = <<"1","0",":","3","0">>
    /\ ~Turn.answer.slots[3].available
    /\ Turn.answer.slots[4].available
    /\ Turn.answer.availableCount = 15

\* the slots of the grid of an open day that no active appointment holds
FreeSlots(appts, date) ==
    IF isOperatingDay(date)
    THEN Cardinality({ i \in DOMAIN OperatingDayGrid :
                          ~Held(appts, date, OperatingDayGrid[i].time) })
    ELSE 0

EntryCounts(entry) ==
    /\ entry.availableSlots = FreeSlots(appointments, entry.date)
    /\ entry.availableSlots = slotsFor(appointments, entry.date).availableCount
    /\ entry.isFull <=> (isOperatingDay(entry.date)
                            /\ FreeSlots(appointments, entry.date) = 0)

\* C24: for each day reported by getAvailableDates the free-slot count is
\* the number of grid slots of that day that no active appointment holds,
\* the number getAvailableSlots reports as availableCount, and isFull is
\* true exactly when the day is an operating day and that number is zero
DatesCountFreeSlots ==
    DatesAsked => \A i \in DOMAIN Turn.answer : EntryCounts(Turn.answer[i])

\* the dates were asked for while the chat's booking in the lunch window
\* stands: tomorrow is reported with 15 free slots, all 16 of its grid are
\* free
LunchBookingCounted ==
    /\ DatesAsked
    /\ \E id \in DOMAIN appointments :
          /\ appointments[id].scheduledDate = AddDays(Today, 1)
          /\ appointments[id].scheduledTimeSlot = <<"1","3",":","0","0">>
          /\ appointments[id].status = "pending"
    /\ Cardinality(DOMAIN appointments) = 1
    /\ Turn.answer[2].date = AddDays(Today, 1)
    /\ Turn.answer[2].availableSlots = 15
    /\ slotsFor(appointments, AddDays(Today, 1)).availableCount = 16
-----------------------------------------------------------------------------
(* The dialogue's checks of one field beside the validator's rules *)

TextBob == <<"B","o","b">>
TextB == <<"B">>
TextR2 == <<"R","2">>
TextShortPhone == <<"1","2","3","4">>
TextDigits == <<"5","5","5","1","2","3","4","5","6","7">>
FieldTexts == {TextBob, TextB, TextR2, TextShortPhone, TextDigits, TextPhone}

MaxFieldTurns == 2

\* a session anywhere in its dialogue is sent names and phone numbers
NextFields ==
    \E text \in FieldTexts : turns < MaxFieldTurns /\ ProcessMessage("s1", text)

SpecFields == InitDialogue /\ [][NextFields]_vars

\* the turn found the session in state from and left it in state to
Moved(from, to) ==
    TurnReturned /\ Turn.pre.status = from /\ Persisted.status = to

\* C25: in CollectingOwnerName a text is accepted exactly when
\* validateOwnerName returns no error for it, and in CollectingPhone exactly
\* when validatePhone returns no error for it
FieldChecksAreValidatorRules ==
    TurnReturned =>
        /\ Turn.pre.status = COLLECTING_OWNER_NAME
              => (Moved(COLLECTING_OWNER_NAME, COLLECTING_PET_NAME)
                     <=> validateOwnerName(Turn.text) = <<>>)
        /\ Turn.pre.status = COLLECTING_PHONE
              => (Moved(COLLECTING_PHONE, COLLECTING_DATE_TIME)
                     <=> validatePhone(Turn.text) = <<>>)

\* the dialogue took "R2" as the owner's name, which the validator rejects
\* for its digit
NameWithDigitAccepted ==
    /\ Moved(COLLECTING_OWNER_NAME, COLLECTING_PET_NAME)
    /\ Turn.text = TextR2
    /\ Persisted.tempData.ownerName = TextR2
    /\ Codes(validateOwnerName(TextR2)) = {"INVALID_CHARACTERS"}
-----------------------------------------------------------------------------
(* The booking form and the update form with short phone numbers and with
   slots of the lunch break *)

FormPhones ==
    { <<"1","2","3">>, <<"5","5","5","-","1","2","3","4">>, <<"(",")">>,
      TextDigits, TextPhone }
FormSlots ==
    { <<"1","3",":","0","0">>, <<"1","3",":","3","0">>, <<"1","3",":","5","9">>,
      <<"1","0",":","0","0">> }
FormDates == {DateToday, DateTomorrow, DateSunday}

FormRequests ==
    { [ReqA EXCEPT !.phone = phone, !.scheduledDate = date, !.scheduledTimeSlot = slot] :
        phone \in FormPhones, date \in FormDates, slot \in FormSlots }

FormUpdates ==
    { [NoUpdate EXCEPT !.phone = phone] : phone \in FormPhones }
        \cup { [NoUpdate EXCEPT !.scheduledDate = date, !.scheduledTimeSlot = slot] :
                  date \in {Null, DateTomorrow}, slot \in FormSlots }

MaxFormTurns == 3

NextForms ==
    \/ \E data \in FormRequests : turns < MaxFormTurns /\ CreateDirectAppointment(data)
    \/ \E id \in AppointmentIds, updateData \in FormUpdates :
          turns < MaxFormTurns /\ UpdateAppointment(1, id, updateData)

SpecForms == Init /\ [][NextForms]_vars

FormAnswered == Turn.op = "direct" /\ Turn.pc = "done"
UpdateAnswered == Turn.op = "update" /\ Turn.pc = "done"

\* fewer than 10 characters are left of a phone that is not empty
ShortPhone(phone) ==
    /\ phone # Null
    /\ trim(phone) # <<>>
    /\ Len(SelectSeq(phone, LAMBDA c : c \notin {" ", "-", ".", "(", ")"})) < 10

TooShort == Err("phone", "TOO_SHORT")

\* the answer carries the error as a value
Reports(result, error) == ~result.success /\ error \in Range(result.errors)

\* an update that is refused before its data is validated
RefusedUnread(result) == result.code \in {"NOT_FOUND", "ALREADY_COMPLETED"}

UpdateReports(updateData, result, error) ==
    /\ error \in Range(validateUpdateAppointment(updateData))
    /\ RefusedUnread(result) \/ Reports(result, error)

\* C26: for every phone that has fewer than 10 characters after removing
\* spaces, hyphens, dots and parentheses and is not empty (nor blank),
\* validateDirectAppointment and validateUpdateAppointment report the error
\* TOO_SHORT on the field phone, and the request is answered with it
ShortPhoneReported ==
    /\ [](FormAnswered /\ ShortPhone(Turn.data.phone)
             => /\ TooShort \in Range(validateDirectAppointment(Turn.data))
                /\ Reports(Turn.result, TooShort))
    /\ [][\A id \in AppointmentIds, updateData \in FormUpdates :
             (/\ procs'[1].op = "update"
              /\ ShortPhone(updateData.phone)
              /\ UpdateAppointment(1, id, updateData))
                 => UpdateReports(updateData, procs'[1].result, TooShort)]_vars

\* the update of a stored appointment with a short phone was answered with
\* TOO_SHORT, the stored phone is the one of the booking
ShortPhoneUpdateRejected ==
    /\ UpdateAnswered
    /\ Reports(Turn.result, TooShort)
    /\ 1 \in DOMAIN appointments
    /\ appointments[1].phone \in {TextDigits, TextPhone}

\* the hour of the slot HH:MM lies in the lunch window
InLunch(timeSlot) ==
    /\ timeSlot # Null
    /\ IsTimeSlotFormat(timeSlot)
    /\ SubSeq(timeSlot, 1, 2) = <<"1","3">>

BreakTime == Err("scheduledTimeSlot", "BREAK_TIME")

StoreUnchanged == UNCHANGED <<appointments, nextId, conversations>>

\* C27: for every slot whose hour lies in the lunch window and every date,
\* validateTimeSlot reports BREAK_TIME, and createDirectAppointment and a
\* rescheduling updateAppointment reject the slot and leave the store as it
\* was (a step of SpecForms that ends a direct creation is the creation for
\* the data its record holds)
LunchSlotRejected ==
    [][/\ (FormAnswered' /\ InLunch(procs'[1].data.scheduledTimeSlot))
             => /\ BreakTime \in Range(validateTimeSlot(procs'[1].data.scheduledTimeSlot,
                                                       procs'[1].data.scheduledDate))
                /\ Reports(procs'[1].result, BreakTime)
                /\ StoreUnchanged
       /\ \A id \in AppointmentIds, updateData \in FormUpdates :
             (/\ procs'[1].op = "update"
              /\ InLunch(updateData.scheduledTimeSlot)
              /\ UpdateAppointment(1, id, updateData))
                 => /\ BreakTime \in Range(validateTimeSlot(updateData.scheduledTimeSlot,
                                                           updateData.scheduledDate))
                    /\ UpdateReports(updateData, procs'[1].result, BreakTime)
                    /\ StoreUnchanged]_vars

\* the reschedule of a stored appointment into the lunch break was answered
\* with BREAK_TIME, the appointment keeps its slot
LunchUpdateRejected ==
    /\ UpdateAnswered
    /\ Reports(Turn.result, BreakTime)
    /\ 1 \in DOMAIN appointments
    /\ appointments[1].scheduledTimeSlot = <<"1","0",":","0","0">>
\* ---- the intent matcher (appointmentIntentMatcher.js) ----

\* primary keywords (weight 20)
PRIMARY_BOOKING_KEYWORDS == <<
    <<"b","o","o","k">>,
    <<"b","o","o","k","i","n","g">>,
    <<"s","c","h","e","d","u","l","e">>,
    <<"s","c","h","e","d","u","l","i","n","g">>,
    <<"a","p","p","o","i","n","t","m","e","n","t">>,
    <<"a","p","p","o","i","n","t","m","e","n","t","s">>,
    <<"r","e","s","e","r","v","e">>,
    <<"r","e","s","e","r","v","a","t","i","o","n">>,
    <<"s","l","o","t">>,
    <<"v","i","s","i","t">>,
    <<"c","o","n","s","u","l","t","a","t","i","o","n">>,
    <<"c","h","e","c","k","u","p">>,
    <<"c","h","e","c","k","-","u","p">>,
    <<"c","h","e","c","k"," ","u","p">>
>>

\* action verbs (weight 15)
BOOKING_ACTION_VERBS == <<
    <<"b","o","o","k">>,
    <<"m","a","k","e">>,
    <<"c","r","e","a","t","e">>,
    <<"s","e","t">>,
    <<"s","e","t","u","p">>,
    <<"s","e","t"," ","u","p">>,
    <<"s","c","h","e","d","u","l","e">>,
    <<"a","r","r","a","n","g","e">>,
    <<"p","l","a","n">>,
    <<"f","i","x">>,
    <<"r","e","s","e","r","v","e">>,
    <<"g","e","t">>,
    <<"n","e","e","d">>,
    <<"w","a","n","t">>,
    <<"w","o","u","l","d"," ","l","i","k","e">>,
    <<"l","o","o","k","i","n","g"," ","f","o","r">>,
    <<"l","o","o","k","i","n","g"," ","t","o">>,
    <<"i","n","t","e","r","e","s","t","e","d"," ","i","n">>,
    <<"r","e","q","u","e","s","t">>,
    <<"r","e","q","u","e","s","t","i","n","g">>
>>

\* appointment nouns (weight 10)
APPOINTMENT_NOUNS == <<
    <<"a","p","p","o","i","n","t","m","e","n","t">>,
    <<"a","p","p","o","i","n","t","m","e","n","t","s">>,
    <<"b","o","o","k","i","n","g">>,
    <<"b","o","o","k","i","n","g","s">>,
    <<"r","e","s","e","r","v","a","t","i","o","n">>,
    <<"r","e","s","e","r","v","a","t","i","o","n","s">>,
    <<"s","l","o","t">>,
    <<"s","l","o","t","s">>,
    <<"t","i","m","e">>,
    <<"t","i","m","e","s","l","o","t">>,
    <<"t","i","m","e"," ","s","l","o","t">>,
    <<"v","i","s","i","t">>,
    <<"v","i","s","i","t","s">>,
    <<"s","e","s","s","i","o","n">>,
    <<"s","e","s","s","i","o","n","s">>,
    <<"c","o","n","s","u","l","t","a","t","i","o","n">>,
    <<"c","o","n","s","u","l","t","a","t","i","o","n","s">>,
    <<"m","e","e","t","i","n","g">>,
    <<"c","h","e","c","k","u","p">>,
    <<"c","h","e","c","k","-","u","p">>,
    <<"c","h","e","c","k"," ","u","p">>,
    <<"e","x","a","m","i","n","a","t","i","o","n">>,
    <<"e","x","a","m">>
>>

\* pet context (weight 5)
PET_CONTEXT_KEYWORDS == <<
    <<"p","e","t">>,
    <<"p","e","t","s">>,
    <<"d","o","g">>,
    <<"d","o","g","s">>,
    <<"p","u","p","p","y">>,
    <<"p","u","p","p","i","e","s">>,
    <<"c","a","t">>,
    <<"c","a","t","s">>,
    <<"k","i","t","t","e","n">>,
    <<"k","i","t","t","e","n","s">>,
    <<"b","i","r","d">>,
    <<"b","i","r","d","s">>,
    <<"r","a","b","b","i","t">>,
    <<"r","a","b","b","i","t","s">>,
    <<"b","u","n","n","y">>,
    <<"b","u","n","n","i","e","s">>,
    <<"h","a","m","s","t","e","r">>,
    <<"h","a","m","s","t","e","r","s">>,
    <<"g","u","i","n","e","a"," ","p","i","g">>,
    <<"f","i","s","h">>,
    <<"t","u","r","t","l","e">>,
    <<"r","e","p","t","i","l","e">>,
    <<"a","n","i","m","a","l">>,
    <<"a","n","i","m","a","l","s">>,
    <<"f","u","r","r","y"," ","f","r","i","e","n","d">>,
    <<"f","u","r"," ","b","a","b","y">>,
    <<"f","u","r","b","a","b","y">>
>>

\* veterinary context (weight 5)
VET_CONTEXT_KEYWORDS == <<
    <<"v","e","t">>,
    <<"v","e","t","s">>,
    <<"v","e","t","e","r","i","n","a","r","y">>,
    <<"v","e","t","e","r","i","n","a","r","i","a","n">>,
    <<"c","l","i","n","i","c">>,
    <<"h","o","s","p","i","t","a","l">>,
    <<"d","o","c","t","o","r">>,
    <<"d","r">>,
    <<"k","o","k","o">>,
    <<"g","r","o","o","m","i","n","g">>,
    <<"v","a","c","c","i","n","a","t","i","o","n">>,
    <<"v","a","c","c","i","n","e">>,
    <<"s","h","o","t","s">>,
    <<"t","r","e","a","t","m","e","n","t">>,
    <<"s","u","r","g","e","r","y">>,
    <<"s","p","a","y">>,
    <<"n","e","u","t","e","r">>,
    <<"d","e","n","t","a","l">>,
    <<"w","e","l","l","n","e","s","s">>,
    <<"a","n","n","u","a","l">>,
    <<"r","o","u","t","i","n","e">>
>>

\* time context (weight 3)
TIME_CONTEXT_KEYWORDS == <<
    <<"t","o","d","a","y">>,
    <<"t","o","m","o","r","r","o","w">>,
    <<"n","e","x","t"," ","w","e","e","k">>,
    <<"t","h","i","s"," ","w","e","e","k">>,
    <<"m","o","n","d","a","y">>,
    <<"t","u","e","s","d","a","y">>,
    <<"w","e","d","n","e","s","d","a","y">>,
    <<"t","h","u","r","s","d","a","y">>,
    <<"f","r","i","d","a","y">>,
    <<"s","a","t","u","r","d","a","y">>,
    <<"s","u","n","d","a","y">>,
    <<"m","o","r","n","i","n","g">>,
    <<"a","f","t","e","r","n","o","o","n">>,
    <<"e","v","e","n","i","n","g">>,
    <<"a","s","a","p">>,
    <<"s","o","o","n">>,
    <<"e","a","r","l","i","e","s","t">>,
    <<"a","v","a","i","l","a","b","l","e">>,
    <<"a","v","a","i","l","a","b","i","l","i","t","y">>,
    <<"w","h","e","n">>,
    <<"d","a","t","e">>,
    <<"t","i","m","e">>,
    <<"a","m">>,
    <<"p","m">>
>>

\* whole phrases (weight 50)
BOOKING_PHRASES == <<
    <<"b","o","o","k"," ","a","n"," ","a","p","p","o","i","n","t","m","e","n","t">>,
    <<"b","o","o","k"," ","a","p","p","o","i","n","t","m","e","n","t">>,
    <<"b","o","o","k"," ","a"," ","s","l","o","t">>,
    <<"b","o","o","k"," ","s","l","o","t">>,
    <<"m","a","k","e"," ","a","n"," ","a","p","p","o","i","n","t","m","e","n","t">>,
    <<"m","a","k","e"," ","a","p","p","o","i","n","t","m","e","n","t">>,
    <<"s","c","h","e","d","u","l","e"," ","a","n"," ","a","p","p","o","i","n","t","m","e","n","t">>,
    <<"s","c","h","e","d","u","l","e"," ","a","p","p","o","i","n","t","m","e","n","t">>,
    <<"s","c","h","e","d","u","l","e"," ","a"," ","v","i","s","i","t">>,
    <<"g","e","t"," ","a","n"," ","a","p","p","o","i","n","t","m","e","n","t">>,
    <<"s","e","t"," ","u","p"," ","a","n"," ","a","p","p","o","i","n","t","m","e","n","t">>,
    <<"s","e","t"," ","u","p"," ","a","p","p","o","i","n","t","m","e","n","t">>,
    <<"s","e","t","u","p"," ","a","p","p","o","i","n","t","m","e","n","t">>,
    <<"r","e","s","e","r","v","e"," ","a"," ","s","l","o","t">>,
    <<"r","e","s","e","r","v","e"," ","s","l","o","t">>,
    <<"f","i","x"," ","a","n"," ","a","p","p","o","i","n","t","m","e","n","t">>,
    <<"n","e","e","d"," ","a","n"," ","a","p","p","o","i","n","t","m","e","n","t">>,
    <<"n","e","e","d"," ","a","p","p","o","i","n","t","m","e","n","t">>,
    <<"n","e","e","d"," ","t","o"," ","b","o","o","k">>,
    <<"n","e","e","d"," ","t","o"," ","s","c","h","e","d","u","l","e">>,
    <<"w","a","n","t"," ","a","n"," ","a","p","p","o","i","n","t","m","e","n","t">>,
    <<"w","a","n","t"," ","t","o"," ","b","o","o","k">>,
    <<"w","a","n","t"," ","t","o"," ","s","c","h","e","d","u","l","e">>,
    <<"w","o","u","l","d"," ","l","i","k","e"," ","a","n"," ","a","p","p","o","i","n","t","m","e","n","t">>,
    <<"w","o","u","l","d"," ","l","i","k","e"," ","t","o"," ","b","o","o","k">>,
    <<"w","o","u","l","d"," ","l","i","k","e"," ","t","o"," ","s","c","h","e","d","u","l","e">>,
    <<"l","o","o","k","i","n","g"," ","t","o"," ","b","o","o","k">>,
    <<"l","o","o","k","i","n","g"," ","t","o"," ","s","c","h","e","d","u","l","e">>,
    <<"l","o","o","k","i","n","g"," ","f","o","r"," ","a","n"," ","a","p","p","o","i","n","t","m","e","n","t">>,
    <<"i","n","t","e","r","e","s","t","e","d"," ","i","n"," ","b","o","o","k","i","n","g">>,
    <<"c","a","n"," ","i"," ","b","o","o","k">>,
    <<"c","a","n"," ","i"," ","s","c","h","e","d","u","l","e">>,
    <<"c","a","n"," ","i"," ","m","a","k","e"," ","a","n"," ","a","p","p","o","i","n","t","m","e","n","t">>,
    <<"c","a","n"," ","i"," ","g","e","t"," ","a","n"," ","a","p","p","o","i","n","t","m","e","n","t">>,
    <<"h","o","w"," ","d","o"," ","i"," ","b","o","o","k">>,
    <<"h","o","w"," ","t","o"," ","b","o","o","k">>,
    <<"h","o","w"," ","c","a","n"," ","i"," ","b","o","o","k">>,
    <<"h","o","w"," ","c","a","n"," ","i"," ","s","c","h","e","d","u","l","e">>,
    <<"h","o","w"," ","t","o"," ","s","c","h","e","d","u","l","e">>,
    <<"h","o","w"," ","d","o"," ","i"," ","s","c","h","e","d","u","l","e">>,
    <<"i","s"," ","t","h","e","r","e"," ","a","v","a","i","l","a","b","i","l","i","t","y">>,
    <<"a","r","e"," ","t","h","e","r","e"," ","a","n","y"," ","s","l","o","t","s">>,
    <<"a","n","y"," ","a","v","a","i","l","a","b","l","e"," ","s","l","o","t","s">>,
    <<"a","n","y"," ","o","p","e","n","i","n","g","s">>,
    <<"a","n","y"," ","a","v","a","i","l","a","b","i","l","i","t","y">>,
    <<"w","h","e","n"," ","c","a","n"," ","i"," ","c","o","m","e">>,
    <<"w","h","e","n"," ","c","a","n"," ","i"," ","b","r","i","n","g">>,
    <<"w","h","e","n"," ","i","s"," ","t","h","e"," ","n","e","x","t"," ","a","v","a","i","l","a","b","l","e">>,
    <<"w","h","a","t"," ","t","i","m","e","s"," ","a","r","e"," ","a","v","a","i","l","a","b","l","e">>,
    <<"w","h","a","t"," ","s","l","o","t","s"," ","a","r","e"," ","a","v","a","i","l","a","b","l","e">>,
    <<"d","o"," ","y","o","u"," ","h","a","v","e"," ","a","v","a","i","l","a","b","i","l","i","t","y">>,
    <<"d","o"," ","y","o","u"," ","h","a","v","e"," ","a","n","y"," ","o","p","e","n","i","n","g","s">>,
    <<"n","e","e","d"," ","t","o"," ","s","e","e"," ","t","h","e"," ","v","e","t">>,
    <<"n","e","e","d"," ","t","o"," ","s","e","e"," ","a"," ","v","e","t">>,
    <<"b","r","i","n","g"," ","m","y"," ","p","e","t">>,
    <<"b","r","i","n","g"," ","m","y"," ","d","o","g">>,
    <<"b","r","i","n","g"," ","m","y"," ","c","a","t">>,
    <<"t","a","k","e"," ","m","y"," ","p","e","t">>,
    <<"t","a","k","e"," ","m","y"," ","d","o","g">>,
    <<"t","a","k","e"," ","m","y"," ","c","a","t">>,
    <<"p","e","t"," ","n","e","e","d","s"," ","t","o"," ","s","e","e">>,
    <<"d","o","g"," ","n","e","e","d","s"," ","t","o"," ","s","e","e">>,
    <<"c","a","t"," ","n","e","e","d","s"," ","t","o"," ","s","e","e">>,
    <<"g","e","t"," ","m","y"," ","p","e","t"," ","c","h","e","c","k","e","d">>,
    <<"g","e","t"," ","m","y"," ","d","o","g"," ","c","h","e","c","k","e","d">>,
    <<"g","e","t"," ","m","y"," ","c","a","t"," ","c","h","e","c","k","e","d">>,
    <<"b","o","o","k"," ","a"," ","c","h","e","c","k","u","p">>,
    <<"b","o","o","k"," ","c","h","e","c","k","u","p">>,
    <<"s","c","h","e","d","u","l","e"," ","a"," ","c","h","e","c","k","u","p">>,
    <<"s","c","h","e","d","u","l","e"," ","c","h","e","c","k","u","p">>,
    <<"b","o","o","k"," ","v","a","c","c","i","n","a","t","i","o","n">>,
    <<"s","c","h","e","d","u","l","e"," ","v","a","c","c","i","n","a","t","i","o","n">>,
    <<"b","o","o","k"," ","g","r","o","o","m","i","n","g">>,
    <<"s","c","h","e","d","u","l","e"," ","g","r","o","o","m","i","n","g">>,
    <<"b","o","o","k"," ","a"," ","c","o","n","s","u","l","t","a","t","i","o","n">>,
    <<"s","c","h","e","d","u","l","e"," ","c","o","n","s","u","l","t","a","t","i","o","n">>,
    <<"b","o","o","k"," ","a","n"," ","e","x","a","m">>,
    <<"s","c","h","e","d","u","l","e"," ","a","n"," ","e","x","a","m">>,
    <<"w","e","l","l","n","e","s","s"," ","v","i","s","i","t">>,
    <<"r","o","u","t","i","n","e"," ","c","h","e","c","k","u","p">>,
    <<"a","n","n","u","a","l"," ","c","h","e","c","k","u","p">>,
    <<"a","n","n","u","a","l"," ","v","i","s","i","t">>,
    <<"c","o","m","e"," ","i","n">>,
    <<"d","r","o","p"," ","b","y">>,
    <<"s","t","o","p"," ","b","y">>,
    <<"v","i","s","i","t"," ","t","h","e"," ","c","l","i","n","i","c">>,
    <<"v","i","s","i","t"," ","t","h","e"," ","v","e","t">>,
    <<"s","e","e"," ","t","h","e"," ","d","o","c","t","o","r">>,
    <<"s","e","e"," ","t","h","e"," ","v","e","t">>,
    <<"c","o","m","e"," ","f","o","r"," ","a"," ","v","i","s","i","t">>,
    <<"a","r","r","a","n","g","e"," ","a"," ","v","i","s","i","t">>,
    <<"p","l","a","n"," ","a"," ","v","i","s","i","t">>,
    <<"r","e","s","c","h","e","d","u","l","e">>,
    <<"r","e","s","c","h","e","d","u","l","e"," ","a","p","p","o","i","n","t","m","e","n","t">>,
    <<"c","h","a","n","g","e"," ","a","p","p","o","i","n","t","m","e","n","t">>,
    <<"c","h","a","n","g","e"," ","m","y"," ","a","p","p","o","i","n","t","m","e","n","t">>,
    <<"m","o","v","e"," ","m","y"," ","a","p","p","o","i","n","t","m","e","n","t">>,
    <<"m","o","d","i","f","y"," ","a","p","p","o","i","n","t","m","e","n","t">>,
    <<"u","p","d","a","t","e"," ","a","p","p","o","i","n","t","m","e","n","t">>,
    <<"n","e","w"," ","a","p","p","o","i","n","t","m","e","n","t">>,
    <<"a","n","o","t","h","e","r"," ","a","p","p","o","i","n","t","m","e","n","t">>,
    <<"d","i","f","f","e","r","e","n","t"," ","t","i","m","e">>,
    <<"d","i","f","f","e","r","e","n","t"," ","d","a","t","e">>
>>

\* Object.entries(COMMON_MISSPELLINGS): <<misspelled, correct>>
COMMON_MISSPELLINGS == <<
    <<<<"a","p","o","i","n","t","m","e","n","t">>, <<"a","p","p","o","i","n","t","m","e","n","t">>>>,
    <<<<"a","p","p","o","i","n","t","e","m","e","n","t">>, <<"a","p","p","o","i","n","t","m","e","n","t">>>>,
    <<<<"a","p","p","o","i","n","m","e","n","t">>, <<"a","p","p","o","i","n","t","m","e","n","t">>>>,
    <<<<"a","p","p","o","i","t","m","e","n","t">>, <<"a","p","p","o","i","n","t","m","e","n","t">>>>,
    <<<<"a","p","p","t">>, <<"a","p","p","o","i","n","t","m","e","n","t">>>>,
    <<<<"a","p","t">>, <<"a","p","p","o","i","n","t","m","e","n","t">>>>,
    <<<<"a","p","p","o","i","n","t","m","n","t">>, <<"a","p","p","o","i","n","t","m","e","n","t">>>>,
    <<<<"a","p","p","o","i","n","t","m","n","e","t">>, <<"a","p","p","o","i","n","t","m","e","n","t">>>>,
    <<<<"a","p","p","o","i","t","n","e","m","n","t">>, <<"a","p","p","o","i","n","t","m","e","n","t">>>>,
    <<<<"a","p","p","i","n","t","m","e","n","t">>, <<"a","p","p","o","i","n","t","m","e","n","t">>>>,
    <<<<"a","p","p","o","n","i","m","e","n","t">>, <<"a","p","p","o","i","n","t","m","e","n","t">>>>,
    <<<<"a","p","p","o","i","n","t","m","e","m","t">>, <<"a","p","p","o","i","n","t","m","e","n","t">>>>,
    <<<<"a","p","p","o","i","n","t","m","e","t">>, <<"a","p","p","o","i","n","t","m","e","n","t">>>>,
    <<<<"a","p","p","o","i","n","t","e","n","t">>, <<"a","p","p","o","i","n","t","m","e","n","t">>>>,
    <<<<"a","p","p","o","t","i","n","m","e","n","t">>, <<"a","p","p","o","i","n","t","m","e","n","t">>>>,
    <<<<"b","o","k">>, <<"b","o","o","k">>>>,
    <<<<"b","o","o","o","k">>, <<"b","o","o","k">>>>,
    <<<<"b","o","k","k">>, <<"b","o","o","k">>>>,
    <<<<"b","u","k">>, <<"b","o","o","k">>>>,
    <<<<"b","o","o">>, <<"b","o","o","k">>>>,
    <<<<"s","c","e","d","u","l","e">>, <<"s","c","h","e","d","u","l","e">>>>,
    <<<<"s","c","e","h","d","u","l","e">>, <<"s","c","h","e","d","u","l","e">>>>,
    <<<<"s","c","h","e","d","l","e">>, <<"s","c","h","e","d","u","l","e">>>>,
    <<<<"s","c","h","d","u","l","e">>, <<"s","c","h","e","d","u","l","e">>>>,
    <<<<"s","h","e","d","u","l","e">>, <<"s","c","h","e","d","u","l","e">>>>,
    <<<<"s","c","h","e","d","u","a","l">>, <<"s","c","h","e","d","u","l","e">>>>,
    <<<<"s","h","c","e","d","u","l","e">>, <<"s","c","h","e","d","u","l","e">>>>,
    <<<<"s","c","h","e","d","u","l","l","e">>, <<"s","c","h","e","d","u","l","e">>>>,
    <<<<"s","c","h","e","c","u","l","e">>, <<"s","c","h","e","d","u","l","e">>>>,
    <<<<"s","c","h","e","d","l","u","e">>, <<"s","c","h","e","d","u","l","e">>>>,
    <<<<"r","e","s","e","r","v","a","t","o","n">>, <<"r","e","s","e","r","v","a","t","i","o","n">>>>,
    <<<<"r","e","e","r","v","a","t","i","o","n">>, <<"r","e","s","e","r","v","a","t","i","o","n">>>>,
    <<<<"r","e","s","e","r","v","t","i","o","n">>, <<"r","e","s","e","r","v","a","t","i","o","n">>>>,
    <<<<"r","e","s","e","v","a","t","i","o","n">>, <<"r","e","s","e","r","v","a","t","i","o","n">>>>,
    <<<<"r","e","s","e","r","v","a","i","o","n">>, <<"r","e","s","e","r","v","a","t","i","o","n">>>>,
    <<<<"s","l","o","t","t">>, <<"s","l","o","t">>>>,
    <<<<"s","l","o","t","e">>, <<"s","l","o","t">>>>,
    <<<<"s","o","l","t">>, <<"s","l","o","t">>>>,
    <<<<"v","e","t","e","n","a","r","y">>, <<"v","e","t","e","r","i","n","a","r","y">>>>,
    <<<<"v","e","t","e","r","n","a","r","y">>, <<"v","e","t","e","r","i","n","a","r","y">>>>,
    <<<<"v","e","t","i","n","a","r","y">>, <<"v","e","t","e","r","i","n","a","r","y">>>>,
    <<<<"v","e","t","e","r","n","a","r","i","a","n">>, <<"v","e","t","e","r","i","n","a","r","i","a","n">>>>,
    <<<<"v","e","t","r","i","n","a","r","i","a","n">>, <<"v","e","t","e","r","i","n","a","r","i","a","n">>>>,
    <<<<"v","e","t","i","r","n","a","r","i","a","n">>, <<"v","e","t","e","r","i","n","a","r","i","a","n">>>>,
    <<<<"c","h","e","k","u","p">>, <<"c","h","e","c","k","u","p">>>>,
    <<<<"c","h","e","c","k","p">>, <<"c","h","e","c","k","u","p">>>>,
    <<<<"c","h","e","k","c"," ","u","p">>, <<"c","h","e","c","k","u","p">>>>,
    <<<<"c","h","e","k","c","u","p">>, <<"c","h","e","c","k","u","p">>>>,
    <<<<"c","e","c","k","u","p">>, <<"c","h","e","c","k","u","p">>>>,
    <<<<"c","o","n","s","u","l","a","t","i","o","n">>, <<"c","o","n","s","u","l","t","a","t","i","o","n">>>>,
    <<<<"c","o","n","s","u","l","a","t","a","t","i","o","n">>, <<"c","o","n","s","u","l","t","a","t","i","o","n">>>>,
    <<<<"c","o","n","s","u","l","t","i","o","n">>, <<"c","o","n","s","u","l","t","a","t","i","o","n">>>>,
    <<<<"c","o","n","s","u","l","t","a","i","o","n">>, <<"c","o","n","s","u","l","t","a","t","i","o","n">>>>,
    <<<<"c","o","s","u","l","t","a","t","i","o","n">>, <<"c","o","n","s","u","l","t","a","t","i","o","n">>>>,
    <<<<"v","a","c","i","n","a","t","i","o","n">>, <<"v","a","c","c","i","n","a","t","i","o","n">>>>,
    <<<<"v","a","c","c","i","n","a","i","o","n">>, <<"v","a","c","c","i","n","a","t","i","o","n">>>>,
    <<<<"v","a","c","c","n","a","t","i","o","n">>, <<"v","a","c","c","i","n","a","t","i","o","n">>>>,
    <<<<"v","a","c","c","i","n","a","t","o","n">>, <<"v","a","c","c","i","n","a","t","i","o","n">>>>,
    <<<<"v","a","x","i","n","a","t","i","o","n">>, <<"v","a","c","c","i","n","a","t","i","o","n">>>>,
    <<<<"v","a","c","i","n","e">>, <<"v","a","c","c","i","n","e">>>>,
    <<<<"v","a","c","c","i","n">>, <<"v","a","c","c","i","n","e">>>>,
    <<<<"g","r","o","m","i","n","g">>, <<"g","r","o","o","m","i","n","g">>>>,
    <<<<"g","r","o","o","m","i","n">>, <<"g","r","o","o","m","i","n","g">>>>,
    <<<<"g","r","o","o","m","i","n","g">>, <<"g","r","o","o","m","i","n","g">>>>,
    <<<<"g","r","r","o","m","i","n","g">>, <<"g","r","o","o","m","i","n","g">>>>,
    <<<<"t","o","m","m","o","r","o","w">>, <<"t","o","m","o","r","r","o","w">>>>,
    <<<<"t","o","m","m","o","r","r","o","w">>, <<"t","o","m","o","r","r","o","w">>>>,
    <<<<"t","o","m","o","r","o","w">>, <<"t","o","m","o","r","r","o","w">>>>,
    <<<<"t","o","m","o","r","r","o">>, <<"t","o","m","o","r","r","o","w">>>>,
    <<<<"t","o","m","o","r","o","o","w">>, <<"t","o","m","o","r","r","o","w">>>>,
    <<<<"a","v","a","i","l","b","l","e">>, <<"a","v","a","i","l","a","b","l","e">>>>,
    <<<<"a","v","i","a","l","a","b","l","e">>, <<"a","v","a","i","l","a","b","l","e">>>>,
    <<<<"a","v","a","i","a","l","b","l","e">>, <<"a","v","a","i","l","a","b","l","e">>>>,
    <<<<"a","v","a","i","l","a","b","e","l">>, <<"a","v","a","i","l","a","b","l","e">>>>,
    <<<<"a","v","a","l","i","a","b","l","e">>, <<"a","v","a","i","l","a","b","l","e">>>>
>>

\* Object.entries(ABBREVIATIONS): <<abbrev, full>>
ABBREVIATIONS == <<
    <<<<"a","p","p","t">>, <<"a","p","p","o","i","n","t","m","e","n","t">>>>,
    <<<<"a","p","t">>, <<"a","p","p","o","i","n","t","m","e","n","t">>>>,
    <<<<"s","c","h","e","d">>, <<"s","c","h","e","d","u","l","e">>>>,
    <<<<"r","e","s","v">>, <<"r","e","s","e","r","v","a","t","i","o","n">>>>,
    <<<<"v","e","t">>, <<"v","e","t","e","r","i","n","a","r","y">>>>,
    <<<<"d","o","c">>, <<"d","o","c","t","o","r">>>>,
    <<<<"d","r">>, <<"d","o","c","t","o","r">>>>,
    <<<<"a","v","a","i","l">>, <<"a","v","a","i","l","a","b","l","e">>>>,
    <<<<"t","m","r","w">>, <<"t","o","m","o","r","r","o","w">>>>,
    <<<<"t","m","r">>, <<"t","o","m","o","r","r","o","w">>>>,
    <<<<"t","o","m","o">>, <<"t","o","m","o","r","r","o","w">>>>,
    <<<<"t","o","m">>, <<"t","o","m","o","r","r","o","w">>>>,
    <<<<"n","x","t">>, <<"n","e","x","t">>>>,
    <<<<"w","k">>, <<"w","e","e","k">>>>,
    <<<<"m","o","n">>, <<"m","o","n","d","a","y">>>>,
    <<<<"t","u","e">>, <<"t","u","e","s","d","a","y">>>>,
    <<<<"t","u","e","s">>, <<"t","u","e","s","d","a","y">>>>,
    <<<<"w","e","d">>, <<"w","e","d","n","e","s","d","a","y">>>>,
    <<<<"t","h","u">>, <<"t","h","u","r","s","d","a","y">>>>,
    <<<<"t","h","u","r","s">>, <<"t","h","u","r","s","d","a","y">>>>,
    <<<<"f","r","i">>, <<"f","r","i","d","a","y">>>>,
    <<<<"s","a","t">>, <<"s","a","t","u","r","d","a","y">>>>,
    <<<<"s","u","n">>, <<"s","u","n","d","a","y">>>>,
    <<<<"m","o","r","n">>, <<"m","o","r","n","i","n","g">>>>,
    <<<<"a","f","t">>, <<"a","f","t","e","r","n","o","o","n">>>>,
    <<<<"e","v","e">>, <<"e","v","e","n","i","n","g">>>>,
    <<<<"p","l","s">>, <<"p","l","e","a","s","e">>>>,
    <<<<"p","l","z">>, <<"p","l","e","a","s","e">>>>,
    <<<<"u">>, <<"y","o","u">>>>,
    <<<<"u","r">>, <<"y","o","u","r">>>>,
    <<<<"a","s","a","p">>, <<"a","s"," ","s","o","o","n"," ","a","s"," ","p","o","s","s","i","b","l","e">>>>,
    <<<<"b","4">>, <<"b","e","f","o","r","e">>>>,
    <<<<"w","/">>, <<"w","i","t","h">>>>,
    <<<<"a","b","t">>, <<"a","b","o","u","t">>>>,
    <<<<"t","h","x">>, <<"t","h","a","n","k","s">>>>,
    <<<<"t","y">>, <<"t","h","a","n","k"," ","y","o","u">>>>,
    <<<<"p","p","l">>, <<"p","e","o","p","l","e">>>>,
    <<<<"m","s","g">>, <<"m","e","s","s","a","g","e">>>>,
    <<<<"i","n","f","o">>, <<"i","n","f","o","r","m","a","t","i","o","n">>>>,
    <<<<"m","i","n","s">>, <<"m","i","n","u","t","e","s">>>>,
    <<<<"h","r","s">>, <<"h","o","u","r","s">>>>
>>

\* the keywords of containsBookingKeyword
quickKeywords == <<
    <<"b","o","o","k">>,
    <<"a","p","p","o","i","n","t","m","e","n","t">>,
    <<"s","c","h","e","d","u","l","e">>,
    <<"r","e","s","e","r","v","e">>,
    <<"s","l","o","t">>,
    <<"v","i","s","i","t">>,
    <<"c","h","e","c","k","u","p">>,
    <<"c","o","n","s","u","l","t","a","t","i","o","n">>,
    <<"v","e","t">>,
    <<"d","o","c","t","o","r">>,
    <<"c","l","i","n","i","c">>
>>

\* the examples of runTestExamples
testCases == <<
    [text |-> <<"I"," ","w","a","n","t"," ","t","o"," ","b","o","o","k"," ","a","n"," ","a","p","p","o","i","n","t","m","e","n","t"," ","f","o","r"," ","m","y"," ","d","o","g">>,
     expected |-> TRUE],
    [text |-> <<"C","a","n"," ","I"," ","s","c","h","e","d","u","l","e"," ","a"," ","v","e","t"," ","v","i","s","i","t"," ","t","o","m","o","r","r","o","w","?">>,
     expected |-> TRUE],
    [text |-> <<"N","e","e","d"," ","t","o"," ","m","a","k","e"," ","a","n"," ","a","p","p","t"," ","f","o","r"," ","m","y"," ","c","a","t">>,
     expected |-> TRUE],
    [text |-> <<"b","o","o","k"," ","a","p","o","i","n","t","m","e","n","t"," ","p","l","e","a","s","e">>,
     expected |-> TRUE],
    [text |-> <<"i"," ","w","a","n","n","a"," ","b","r","i","n","g"," ","m","y"," ","p","u","p","p","y"," ","f","o","r"," ","a"," ","c","h","e","c","k","u","p">>,
     expected |-> TRUE],
    [text |-> <<"w","h","e","n"," ","c","a","n"," ","I"," ","c","o","m","e"," ","i","n"," ","f","o","r"," ","v","a","c","c","i","n","a","t","i","o","n">>,
     expected |-> TRUE],
    [text |-> <<"a","n","y"," ","s","l","o","t","s"," ","a","v","a","i","l","a","b","l","e"," ","t","h","i","s"," ","w","e","e","k","?">>,
     expected |-> TRUE],
    [text |-> <<"l","o","o","k","i","n","g"," ","t","o"," ","s","c","h","e","d","u","l","e"," ","a"," ","c","o","n","s","u","l","t","a","t","i","o","n">>,
     expected |-> TRUE],
    [text |-> <<"m","y"," ","p","e","t"," ","n","e","e","d","s"," ","t","o"," ","s","e","e"," ","t","h","e"," ","d","o","c","t","o","r">>,
     expected |-> TRUE],
    [text |-> <<"c","a","n"," ","u"," ","h","e","l","p"," ","m","e"," ","b","o","o","k"," ","a"," ","s","l","o","t"," ","f","o","r"," ","t","m","r","w">>,
     expected |-> TRUE],
    [text |-> <<"I","'","d"," ","l","i","k","e"," ","t","o"," ","a","r","r","a","n","g","e"," ","a"," ","v","i","s","i","t"," ","f","o","r"," ","m","y"," ","r","a","b","b","i","t">>,
     expected |-> TRUE],
    [text |-> <<"d","o"," ","y","o","u"," ","h","a","v","e"," ","a","v","a","i","l","a","b","i","l","i","t","y"," ","o","n"," ","m","o","n","d","a","y"," ","m","o","r","n","i","n","g">>,
     expected |-> TRUE],
    [text |-> <<"n","e","e","d"," ","a","n"," ","a","p","p","o","i","n","t","m","e","n","t"," ","a","s","a","p">>,
     expected |-> TRUE],
    [text |-> <<"w","a","n","t"," ","t","o"," ","g","e","t"," ","m","y"," ","c","a","t"," ","e","x","a","m","i","n","e","d">>,
     expected |-> TRUE],
    [text |-> <<"h","o","w"," ","d","o"," ","I"," ","r","e","s","e","r","v","e"," ","a"," ","t","i","m","e"," ","s","l","o","t">>,
     expected |-> TRUE],
    [text |-> <<"f","i","x"," ","a","n"," ","a","p","p","o","i","n","t","m","e","n","t"," ","f","o","r"," ","g","r","o","o","m","i","n","g">>,
     expected |-> TRUE],
    [text |-> <<"s","e","t"," ","u","p"," ","a"," ","w","e","l","l","n","e","s","s"," ","v","i","s","i","t">>,
     expected |-> TRUE],
    [text |-> <<"s","c","e","d","u","l","e"," ","a"," ","c","h","e","c","k","u","p"," ","f","o","r"," ","m","y"," ","d","o","g">>,
     expected |-> TRUE],
    [text |-> <<"i","s"," ","t","h","e","r","e"," ","a","n"," ","o","p","e","n","i","n","g"," ","f","o","r"," ","t","o","d","a","y"," ","a","f","t","e","r","n","o","o","n">>,
     expected |-> TRUE],
    [text |-> <<"b","o","o","k"," ","m","e"," ","i","n"," ","f","o","r"," ","n","e","x","t"," ","f","r","i","d","a","y">>,
     expected |-> TRUE],
    [text |-> <<"i"," ","n","e","e","d"," ","t","o"," ","b","r","i","n","g"," ","m","y"," ","k","i","t","t","e","n"," ","t","o"," ","t","h","e"," ","v","e","t">>,
     expected |-> TRUE],
    [text |-> <<"s","c","h","e","d","u","l","e"," ","a","n"," ","e","x","a","m"," ","f","o","r"," ","m","y"," ","p","e","t">>,
     expected |-> TRUE],
    [text |-> <<"a","n","y"," ","t","i","m","e"," ","s","l","o","t","s"," ","f","o","r"," ","t","o","m","m","o","r","o","w","?">>,
     expected |-> TRUE],
    [text |-> <<"v","a","c","i","n","a","t","i","o","n"," ","a","p","p","o","i","n","t","m","e","n","t"," ","p","l","s">>,
     expected |-> TRUE],
    [text |-> <<"g","r","o","m","i","n","g"," ","f","o","r"," ","m","y"," ","d","o","g">>,
     expected |-> TRUE],
    [text |-> <<"w","h","a","t"," ","a","r","e"," ","y","o","u","r"," ","h","o","u","r","s">>,
     expected |-> FALSE],
    [text |-> <<"w","h","e","r","e"," ","i","s"," ","t","h","e"," ","c","l","i","n","i","c"," ","l","o","c","a","t","e","d">>,
     expected |-> FALSE],
    [text |-> <<"h","o","w"," ","m","u","c","h"," ","d","o","e","s"," ","i","t"," ","c","o","s","t">>,
     expected |-> FALSE],
    [text |-> <<"c","a","n","c","e","l"," ","m","y"," ","a","p","p","o","i","n","t","m","e","n","t">>,
     expected |-> FALSE],
    [text |-> <<"h","e","l","l","o">>,
     expected |-> FALSE],
    [text |-> <<"t","h","a","n","k"," ","y","o","u">>,
     expected |-> FALSE],
    [text |-> <<"w","h","a","t"," ","s","e","r","v","i","c","e","s"," ","d","o"," ","y","o","u"," ","o","f","f","e","r">>,
     expected |-> FALSE],
    [text |-> <<"g","o","o","d","b","y","e">>,
     expected |-> FALSE]
>>

\* text.replace(/\s+/g, ' ')
RECURSIVE collapseSpaces(_)
collapseSpaces(s) ==
    IF s = <<>> THEN <<>>
    ELSE IF IsSpace(Head(s))
         THEN IF Len(s) > 1 /\ IsSpace(s[2])
              THEN collapseSpaces(Tail(s))
              ELSE <<" ">> \o collapseSpaces(Tail(s))
         ELSE <<Head(s)>> \o collapseSpaces(Tail(s))

\* text.replace(/[^\w\s\-']/g, ' ')
replacePunctuation(s) ==
    [i \in 1..Len(s) |->
        IF IsWordChar(s[i]) \/ IsSpace(s[i]) \/ s[i] \in {"-", "'"}
        THEN s[i] ELSE " "]

\* normalizeText
normalizeText(text) ==
    trim(collapseSpaces(replacePunctuation(collapseSpaces(trim(toLowerCase(text))))))

\* new RegExp(`\\b${word}\\b`, 'gi') matches s at position i
WordAt(s, word, i) ==
    /\ i + Len(word) - 1 <= Len(s)
    /\ \A k \in 1..Len(word) : LowerChar(s[i + k - 1]) = LowerChar(word[k])
    /\ WordBoundary(s, i)
    /\ WordBoundary(s, i + Len(word))

\* s.replace(regex, by), from position i on: every match, left to right
RECURSIVE replaceWordFrom(_, _, _, _)
replaceWordFrom(s, i, word, by) ==
    IF i > Len(s) THEN <<>>
    ELSE IF WordAt(s, word, i)
         THEN by \o replaceWordFrom(s, i + Len(word), word, by)
         ELSE <<s[i]>> \o replaceWordFrom(s, i + 1, word, by)

\* the loop over Object.entries(table), from entry k on (nothing matches in
\* an empty text)
RECURSIVE replaceEntries(_, _, _)
replaceEntries(text, table, k) ==
    IF k > Len(table) \/ text = <<>> THEN text
    ELSE replaceEntries(replaceWordFrom(text, 1, table[k][1], table[k][2]),
                        table, k + 1)

\* fixMisspellings
fixMisspellings(text) == replaceEntries(text, COMMON_MISSPELLINGS, 1)

\* expandAbbreviations
expandAbbreviations(text) == replaceEntries(text, ABBREVIATIONS, 1)

\* the text that both the scorer and the quick check search
correctedText(text) == fixMisspellings(expandAbbreviations(normalizeText(text)))

\* the number of entries of a table that the text includes
matchCount(corrected, table) ==
    Cardinality({k \in DOMAIN table : includes(corrected, toLowerCase(table[k]))})

\* the weights and the combination bonuses of calculateIntentScore
intentScore(phrases, primary, verbs, nouns, pet, vet, time) ==
    50 * phrases + 20 * primary + 15 * verbs + 10 * nouns
    + 5 * pet + 5 * vet + 3 * time
    + (IF verbs > 0 /\ nouns > 0 THEN 25 ELSE 0)
    + (IF pet > 0 /\ (vet > 0 \/ nouns > 0) THEN 15 ELSE 0)
    + (IF time > 0 /\ nouns > 0 THEN 10 ELSE 0)

scoreOfCorrected(corrected) ==
    [score |-> intentScore(matchCount(corrected, BOOKING_PHRASES),
                           matchCount(corrected, PRIMARY_BOOKING_KEYWORDS),
                           matchCount(corrected, BOOKING_ACTION_VERBS),
                           matchCount(corrected, APPOINTMENT_NOUNS),
                           matchCount(corrected, PET_CONTEXT_KEYWORDS),
                           matchCount(corrected, VET_CONTEXT_KEYWORDS),
                           matchCount(corrected, TIME_CONTEXT_KEYWORDS)),
     normalizedText |-> corrected]

\* calculateIntentScore
calculateIntentScore(text) == scoreOfCorrected(correctedText(text))

INTENT_THRESHOLD == 25

bookingOfScore(result, threshold) ==
    [isBooking |-> result.score >= threshold,
     score |-> result.score,
     normalizedText |-> result.normalizedText]

\* isBookingIntent with the default threshold
isBookingIntent(text) == bookingOfScore(calculateIntentScore(text), INTENT_THRESHOLD)

includesAny(corrected, keywords) ==
    \E k \in DOMAIN keywords : includes(corrected, keywords[k])

\* containsBookingKeyword
containsBookingKeyword(text) == includesAny(correctedText(text), quickKeywords)

\* texts that hold a quick keyword and little else
TextVet == <<"v","e","t">>
TextClinic == <<"c","l","i","n","i","c">>
TextDoctor == <<"d","o","c","t","o","r">>
TextSeeDoctor == <<"s","e","e"," ","d","o","c","t","o","r">>
TextSeeAVet == <<"s","e","e"," ","a"," ","v","e","t">>
TextCancel ==
    <<"c","a","n","c","e","l"," ","m","y"," ",
      "a","p","p","o","i","n","t","m","e","n","t">>

\* the texts classified: the authors' examples, the short texts, a text with
\* capitals and blanks, and a greeting
IntentTexts ==
    { testCases[k].text : k \in DOMAIN testCases }
    \cup {TextVet, TextClinic, TextDoctor, TextSeeDoctor, TextSeeAVet,
          TextBook, TextHello}

\* the texts sent to the chat
ChatIntentTexts == {TextSeeDoctor, TextVet, TextHello}

MaxIntentTurns == 2

classified(text, full) ==
    [isBooking |-> full.isBooking,
     score |-> full.score,
     normalizedText |-> full.normalizedText,
     quick |-> containsBookingKeyword(text),
     detect |-> detectAppointmentIntent(text)]

\* one text handed to the full scorer and to the two pre-checks
Classify(text) == Answers("classify", text, classified(text, isBookingIntent(text)))

\* texts classified at any time, and a session that is sent some of them
NextIntent ==
    \/ \E text \in IntentTexts : Classify(text)
    \/ \E text \in ChatIntentTexts :
          turns < MaxIntentTurns /\ ProcessMessage("s1", text)

SpecIntent == Init /\ [][NextIntent]_vars

Classified == Turn.op = "classify" /\ Turn.pc = "done"

\* C28: whenever containsBookingKeyword or detectAppointmentIntent answers
\* true for a text, isBookingIntent answers isBooking = true for that text
QuickCheckIsConservative ==
    Classified /\ (Turn.answer.quick \/ Turn.answer.detect)
        => Turn.answer.isBooking

\* "see doctor" passes both pre-checks and scores 5, below the threshold
SeeDoctorPassesQuickCheckOnly ==
    /\ Classified
    /\ Turn.raw = TextSeeDoctor
    /\ Turn.answer.quick
    /\ Turn.answer.detect
    /\ Turn.answer.score = 5
    /\ ~Turn.answer.isBooking

\* C29: isBookingIntent classifies every text of the example table of
\* runTestExamples as the table expects
ExampleTableAgrees ==
    \A k \in DOMAIN testCases :
        Classified /\ Turn.raw = testCases[k].text
            => Turn.answer.isBooking = testCases[k].expected

\* "cancel my appointment", expected false in the table, scores 30
CancelClassifiedAsBooking ==
    /\ Classified
    /\ Turn.raw = TextCancel
    /\ \E k \in DOMAIN testCases :
          testCases[k].text = TextCancel /\ ~testCases[k].expected
    /\ Turn.answer.score = 30
    /\ Turn.answer.isBooking
\* ---- relative date expressions (AIService.extractDate) ----

WordToday == <<"t","o","d","a","y">>
WordTomorrow == <<"t","o","m","o","r","r","o","w">>
WordDayAfter ==
    <<"d","a","y"," ","a","f","t","e","r"," ","t","o","m","o","r","r","o","w">>
WordNextWeek == <<"n","e","x","t"," ","w","e","e","k">>
TextTomorrowCapital == <<"T","o","m","o","r","r","o","w"," ","1","0","a","m">>
TextDayAfterAtTen == WordDayAfter \o <<" ","1","0","a","m">>
TextNextWeekPlease == <<"s","o","m","e"," ","t","i","m","e"," ">> \o WordNextWeek

\* the texts whose date is asked for
RelativeTexts ==
    {WordToday, WordTomorrow, WordDayAfter, WordNextWeek,
     TextTomorrowCapital, TextDayAfterAtTen, TextNextWeekPlease, TextHello}

\* the texts a session is sent
RelativeChatTexts == {TextDayAfterAtTen, TextYes}

MaxRelativeTurns == 2

\* AIService.extractDate applied to one text
ExtractDate(text) == Answers("extractDate", text, extractDate(text))

\* dates extracted at any time, and a session anywhere in its dialogue that
\* names a relative date and confirms
NextRelative ==
    \/ \E text \in RelativeTexts : ExtractDate(text)
    \/ \E text \in RelativeChatTexts :
          turns < MaxRelativeTurns /\ ProcessMessage("s1", text)

SpecRelative == InitDialogue /\ [][NextRelative]_vars

DateExtracted == Turn.op = "extractDate" /\ Turn.pc = "done"
Says(word) == includes(toLowerCase(Turn.raw), word)
DaysAhead(n) == Turn.answer = formatDate(AddDays(Today, n))

\* C30: extractDate answers with today for a text that says today, with
\* today + 2 days for one that says day after tomorrow, with today + 1 day
\* for one that says tomorrow otherwise, and with today + 7 days for one that
\* says next week, each as YYYY-MM-DD
RelativeDatesResolved ==
    DateExtracted =>
        /\ Says(WordToday) => DaysAhead(0)
        /\ ~Says(WordToday) /\ Says(WordDayAfter) => DaysAhead(2)
        /\ ~Says(WordToday) /\ ~Says(WordDayAfter) /\ Says(WordTomorrow)
              => DaysAhead(1)
        /\ ~Says(WordToday) /\ ~Says(WordTomorrow) /\ Says(WordNextWeek)
              => DaysAhead(7)

\* "day after tomorrow" on 2026-01-29 is answered with 2026-01-30
DayAfterTomorrowIsTomorrow ==
    /\ DateExtracted
    /\ Turn.raw = WordDayAfter
    /\ Turn.answer = DateTomorrow
    /\ Turn.answer # formatDate(AddDays(Today, 2))
\* ---- times of day (AIService.extractTime, parseDateTimeString) ----

NoMinutes == -1

\* the text H[:MM][am|pm] of a numeric time
timeText(hours, minutes, meridiem) ==
    numberToString(hours)
    \o (IF minutes = NoMinutes THEN <<>> ELSE <<":">> \o padStart2(minutes))
    \o meridiem

TimeHours == {0, 2, 9, 11, 12, 13, 14, 24, 25}
TimeMinutes == {NoMinutes, 30}
TimeMeridiems == {<<>>, <<"p","m">>, <<"A","M">>}
TimeTexts ==
    { timeText(h, mm, mer) : h \in TimeHours, mm \in TimeMinutes, mer \in TimeMeridiems }

\* the example of MESSAGES.ASK_DATE_TIME, and shorter answers to that prompt
TextPromptExample ==
    <<"J","a","n","u","a","r","y"," ","3","0",","," ","2","0","2","6"," ",
      "a","t"," ","2",":","0","0"," ","P","M">>
TextTomorrowAtThree == WordTomorrow \o <<" ","a","t"," ","3","p","m">>
TimeChatTexts == {TextPromptExample, TextTomorrowAtThree, WordTomorrow, TextYes}

MaxTimeTurns == 2

\* AIService.extractTime applied to one text
ExtractTime(text) == Answers("extractTime", text, extractTime(text))

\* times extracted at any time, and a session anywhere in its dialogue that
\* answers the question for the date and time and confirms
NextTimes ==
    \/ \E text \in TimeTexts : ExtractTime(text)
    \/ \E text \in TimeChatTexts :
          turns < MaxTimeTurns /\ ProcessMessage("s1", text)

SpecTimes == InitDialogue /\ [][NextTimes]_vars

TimeExtracted == Turn.op = "extractTime" /\ Turn.pc = "done"

\* the hour a numeric time text states, and whether it names its meridiem
statedHour(text) == parseInt(SubSeq(text, 1, RunLength(text, 1, DigitSet)))
statesMeridiem(text) ==
    /\ Len(text) >= 2
    /\ toLowerCase(SubSeq(text, Len(text) - 1, Len(text)))
           \in {<<"a","m">>, <<"p","m">>}

\* the hour and the period of a label "H:MM AM"
labelHour(label) == parseInt(SubSeq(label, 1, RunLength(label, 1, DigitSet)))
labelPeriod(label) == SubSeq(label, Len(label) - 1, Len(label))

LabelOf(text, hour) ==
    /\ hour > 24 => Turn.answer = Null
    /\ hour <= 24 =>
          /\ Turn.answer # Null
          /\ labelHour(Turn.answer) \in 1..12
          /\ ~statesMeridiem(text) =>
                labelPeriod(Turn.answer) =
                    (IF hour < 12 THEN <<"A","M">> ELSE <<"P","M">>)

\* C31: extractTime answers a numeric time whose hour is above 24 with null,
\* and any other with a label whose hour is in 1..12 and whose period, when
\* the text names none, is AM for an hour below 12 and PM otherwise; 2pm
\* gives 2:00 PM and 14:30 gives 2:30 PM
TimeLabelled ==
    TimeExtracted =>
        /\ LabelOf(Turn.raw, statedHour(Turn.raw))
        /\ Turn.raw = <<"2","p","m">> => Turn.answer = <<"2",":","0","0"," ","P","M">>
        /\ Turn.raw = <<"1","4",":","3","0">>
              => Turn.answer = <<"2",":","3","0"," ","P","M">>

\* "13pm" is answered with the label "13:00 PM"
HourThirteenLabelled ==
    /\ TimeExtracted
    /\ Turn.raw = <<"1","3","p","m">>
    /\ Turn.answer = <<"1","3",":","0","0"," ","P","M">>

\* the slot each answer to the question for the date and time states (the
\* default slot for the answer that states no time)
StatedSlots ==
    <<[text |-> TextPromptExample, slot |-> <<"1","4",":","0","0">>],
      [text |-> TextTomorrowAtThree, slot |-> <<"1","5",":","0","0">>],
      [text |-> TextDate, slot |-> <<"1","0",":","0","0">>],
      [text |-> WordTomorrow, slot |-> <<"0","9",":","0","0">>]>>

CommittedFrom(id, text) ==
    /\ id \in DOMAIN appointments
    /\ appointments[id].sessionId = "s1"
    /\ appointments[id].preferredDateTime = text

\* C36: an appointment committed from a dialogue whose date-time text states
\* a date and a time of day is scheduled at that time of day; the slot 09:00
\* is used only for a text that states no time
StatedTimeScheduled ==
    \A id \in DOMAIN appointments : \A k \in DOMAIN StatedSlots :
        CommittedFrom(id, StatedSlots[k].text)
            => appointments[id].scheduledTimeSlot = StatedSlots[k].slot

\* the example of the prompt, confirmed, is scheduled on 2026-01-30 at 09:00
PromptExampleAtNine ==
    \E id \in DOMAIN appointments :
        /\ CommittedFrom(id, TextPromptExample)
        /\ appointments[id].scheduledDate = <<2026, 1, 30>>
        /\ appointments[id].scheduledTimeSlot = <<"0","9",":","0","0">>
\* ---- the alternatives offered with SLOT_TAKEN ----

DateSaturday == <<"2","0","2","6","-","0","1","-","3","1">>
ReqSaturday == [ReqA EXCEPT !.scheduledDate = DateSaturday]
SuggestRequests == {ReqA, ReqE, ReqSaturday}
SuggestUpdates ==
    { [NoUpdate EXCEPT !.scheduledTimeSlot = <<"1","0",":","0","0">>],
      [NoUpdate EXCEPT !.scheduledTimeSlot = <<"1","0",":","3","0">>],
      [NoUpdate EXCEPT !.scheduledDate = DateSaturday],
      [NoUpdate EXCEPT !.scheduledDate = DateTomorrow] }

MaxSuggestTurns == 3

\* the booking form, reschedules and cancellations, one request at a time
NextSuggest ==
    \/ \E data \in SuggestRequests :
          turns < MaxSuggestTurns /\ CreateDirectAppointment(data)
    \/ \E id \in AppointmentIds, updateData \in SuggestUpdates :
          turns < MaxSuggestTurns /\ UpdateAppointment(1, id, updateData)
    \/ \E id \in AppointmentIds : turns < MaxSuggestTurns /\ CancelAppointment(1, id)

SpecSuggest == Init /\ [][NextSuggest]_vars

GridTimes == { OperatingDayGrid[k].time : k \in DOMAIN OperatingDayGrid }

\* at most 5 alternatives, each a slot of the grid that no active appointment
\* holds on the date, and none of them the slot that was asked for
Alternatives(suggested, appts, date, timeSlot) ==
    /\ Len(suggested) <= 5
    /\ \A k \in DOMAIN suggested :
          /\ suggested[k].time \in GridTimes
          /\ ~Held(appts, date, suggested[k].time)
          /\ suggested[k].time # timeSlot

SlotTaken(proc) == proc.pc = "done" /\ proc.result.code = "SLOT_TAKEN"

DirectAlternatives ==
    FormAnswered /\ SlotTaken(Turn)
        => Alternatives(Turn.result.suggested, appointments,
                        dateFromString(Turn.data.scheduledDate),
                        Turn.data.scheduledTimeSlot)

UpdateAlternatives(id, updateData) ==
    Alternatives(procs'[1].result.suggested, appointments,
                 newDateOf(appointments[id], updateData),
                 newTimeSlotOf(appointments[id], updateData))

\* C32: with every SLOT_TAKEN of createDirectAppointment and of
\* updateAppointment come at most 5 alternatives, each a grid slot that no
\* active appointment holds on the requested date and none the requested slot
SuggestionsAreFree ==
    /\ []DirectAlternatives
    /\ [][\A id \in AppointmentIds, updateData \in SuggestUpdates :
            (/\ procs'[1].op = "update"
             /\ SlotTaken(procs'[1])
             /\ UpdateAppointment(1, id, updateData))
                => UpdateAlternatives(id, updateData)]_vars

\* appointment 1 (tomorrow 10:00) is moved to the Saturday on which
\* appointment 2 holds 10:00: 10:00 is among the alternatives
TakenSlotSuggested ==
    /\ UpdateAnswered
    /\ SlotTaken(Turn)
    /\ \E k \in DOMAIN Turn.result.suggested :
          /\ Turn.result.suggested[k].time = <<"1","0",":","0","0">>
          /\ Held(appointments, <<2026, 1, 31>>, <<"1","0",":","0","0">>)
    /\ \E id \in DOMAIN appointments :
          /\ appointments[id].scheduledDate = <<2026, 1, 30>>
          /\ appointments[id].scheduledTimeSlot = <<"1","0",":","0","0">>
\* ---- invalid answers and the words cancel and stop in the dialogue ----

TextLongName == [i \in 1..(NAME_MAX_LENGTH + 1) |-> "a"]
TextMaybe == <<"m","a","y","b","e">>
TextStop == <<"s","t","o","p">>
WordCancel == <<"c","a","n","c","e","l">>
RetryTexts ==
    {TextB, TextLongName, TextBob, TextMaybe, TextPhone, TextYes, TextStop, WordCancel}

MaxRetryTurns == 2

\* a session anywhere in its dialogue is sent answers that some of its states
\* refuse, and the words cancel and stop
NextRetry ==
    \E text \in RetryTexts : turns < MaxRetryTurns /\ ProcessMessage("s1", text)

SpecRetry == InitDialogue /\ [][NextRetry]_vars

HasLetter(text) == \E i \in DOMAIN text : IsLetter(text[i])

\* the answers each state refuses
InvalidFor(status, text) ==
    CASE status = COLLECTING_OWNER_NAME ->
            Len(trim(text)) < 2 \/ Len(trim(text)) > 100
      [] status = COLLECTING_PET_NAME -> trim(text) = <<>>
      [] status = COLLECTING_PHONE -> HasLetter(text)
      [] status = COLLECTING_DATE_TIME -> Len(trim(text)) < 5
      [] status = CONFIRMING ->
            toLowerCase(trim(text)) \notin Affirmative \cup Negative
      [] OTHER -> FALSE

\* the message each state asks again with
RePrompt(status) ==
    CASE status = COLLECTING_OWNER_NAME -> "INVALID_NAME"
      [] status = COLLECTING_PET_NAME -> "ENTER_PET_NAME"
      [] status = COLLECTING_PHONE -> "INVALID_PHONE"
      [] status = COLLECTING_DATE_TIME -> "PROVIDE_DATE_TIME"
      [] status = CONFIRMING -> "REPLY_YES_OR_NO"
      [] OTHER -> ""

Refused == TurnReturned /\ InvalidFor(Turn.pre.status, Turn.raw)

\* a blank text never reaches the dialogue through the chat (the controller
\* answers it itself); the dialogue's step for it is looked at directly
BlankTexts == {<<>>, <<" ">>}
AsksAgain(state, flow) ==
    /\ flow.nextState = state.status
    /\ flow.tempData = state.tempData
    /\ ~flow.shouldSave
    /\ flow.response = RePrompt(state.status)
BlankRefused(state) ==
    \A text \in BlankTexts :
        InvalidFor(state.status, text) => AsksAgain(state, processBookingFlow(text, state))

CancelWords == {WordCancel, TextStop}
NonIdle ==
    {COLLECTING_OWNER_NAME, COLLECTING_PET_NAME, COLLECTING_PHONE,
     COLLECTING_DATE_TIME, CONFIRMING}

\* C34: a turn with the text cancel or stop, sent in any state of the
\* dialogue other than Idle, leaves the session Idle and stores the word in
\* no field
CancelWordEndsDialogue ==
    TurnReturned /\ Turn.pre.status \in NonIdle /\ Turn.raw \in CancelWords
        => /\ Persisted.status = IDLE
           /\ \A k \in DOMAIN Persisted.tempData : Persisted.tempData[k] # Turn.raw

\* "cancel", sent in CollectingOwnerName, is the owner's name
CancelIsTheOwnersName ==
    /\ TurnReturned
    /\ Turn.raw = WordCancel
    /\ Turn.pre.status = COLLECTING_OWNER_NAME
    /\ Persisted.status = COLLECTING_PET_NAME
    /\ Persisted.tempData["ownerName"] = WordCancel
\* ---- updates of a completed appointment ----

TextOk == <<"o","k">>
NotesOnly == [NoUpdate EXCEPT !.notes = TextOk]
CompletedUpdates ==
    { NotesOnly,
      [NotesOnly EXCEPT !.status = <<"p","e","n","d","i","n","g">>],
      [NotesOnly EXCEPT !.scheduledTimeSlot = <<"1","0",":","3","0">>],
      [NotesOnly EXCEPT !.phone = TextPhone],
      [NoUpdate EXCEPT !.status = <<"p","e","n","d","i","n","g">>],
      [NoUpdate EXCEPT !.scheduledTimeSlot = <<"1","0",":","3","0">>] }

MaxCompletedTurns == 4

\* the booking form, the completion of an appointment and updates of it
NextCompleted ==
    \/ \E data \in {ReqA, ReqE} :
          turns < MaxCompletedTurns /\ CreateDirectAppointment(data)
    \/ \E id \in AppointmentIds :
          turns < MaxCompletedTurns /\ UpdateStatus(1, id, "completed")
    \/ \E id \in AppointmentIds, updateData \in CompletedUpdates :
          turns < MaxCompletedTurns /\ UpdateAppointment(1, id, updateData)

SpecCompleted == Init /\ [][NextCompleted]_vars

\* the stored fields other than notes
WithoutNotes(appointment) == [appointment EXCEPT !.notes = Null]

\* C35: updateAppointment changes no stored field other than notes of an
\* appointment whose status is completed
CompletedKeepsItsFields ==
    [][procs'[1].op = "update" /\ procs'[1].pc = "done" =>
          \A id \in DOMAIN appointments :
              appointments[id].status = "completed" =>
                  /\ id \in DOMAIN appointments'
                  /\ WithoutNotes(appointments'[id]) = WithoutNotes(appointments[id])]_vars

\* the third request is an update, and the appointment of the form's 10:00
\* request is completed and at 10:30: it was moved after its completion
CompletedMoved ==
    /\ UpdateAnswered
    /\ Turn.result.success
    /\ turns = 3
    /\ \E id \in DOMAIN appointments :
          /\ Turn.result.appointmentId = id
          /\ appointments[id].phone = ReqA.phone
          /\ appointments[id].status = "completed"
          /\ appointments[id].scheduledTimeSlot = <<"1","0",":","3","0">>
          /\ appointments[id].notes = TextOk
\* ---- one run of the dialogue after another ----

\* the first run of the session, which ended with no or with yes
FirstRun == Dialogue
EarlierValues == { trim(FirstRun[k]) : k \in 2..Len(FirstRun) }

\* the texts of the later runs: none of them is a value of the first run
RunTexts == {TextSeeDoctor, TextBob, TextDigits, TextTomorrowAtThree, TextYes, TextNo}

MaxRunTurns == 6

InitRuns ==
    /\ \E end \in {TextNo, TextYes} :
          StoreIs(served(InitStore, "s1", FirstRun \o <<end>>))
    /\ procs = [p \in Procs |-> IdleProc]
    /\ turns = 0
    /\ faults = 0

\* the session is sent the texts of another run, one turn at a time
NextRuns ==
    \E text \in RunTexts : turns < MaxRunTurns /\ ProcessMessage("s1", text)

SpecRuns == InitRuns /\ [][NextRuns]_vars

\* C37: the appointment a later run of the dialogue commits is made of the
\* four fields of that run, and none of them is a value that the earlier run
\* of the session collected
CommitOfThisRunOnly ==
    CommitSucceeded =>
        /\ DOMAIN Turn.flow.tempData = CollectedFields
        /\ \A f \in CollectedFields :
              /\ appointments[Turn.result.appointmentId][f] \notin EarlierValues
              /\ appointments[Turn.result.appointmentId][f] \in
                    { trim(text) : text \in RunTexts }

\* the first run was cancelled with no (its fields are still stored with the
\* Idle session), and the second run committed its own four values
SecondRunCommitted ==
    /\ CommitSucceeded
    /\ nextId = 2
    /\ appointments[1].ownerName = TextBob
    /\ appointments[1].phone = TextDigits
    /\ appointments[1].preferredDateTime = TextTomorrowAtThree
\* ---- two confirmations of one session at a time ----

\* the date-time texts of the dialogue: one that parseDateTimeString resolves
\* and one that it does not
ConfirmedDateTexts == {TextDate, TextHello}

MaxYesTurns == 2

\* the session is in Confirming, nothing is booked, no request in flight
InitYes ==
    /\ \E text \in ConfirmedDateTexts :
          StoreIs(served(InitStore, "s1",
                         <<TextBook, TextBook, TextBook, TextPhone, text>>))
    /\ procs = [p \in Procs |-> IdleProc]
    /\ turns = 0
    /\ faults = 0

\* the steps of a turn that says yes
YesSteps(p) ==
    \/ FindSession(p)
    \/ AddUserMessage(p)
    \/ GetBookingState(p)
    \/ GetHistory(p)
    \/ CaFindConv(p)
    \/ CaCheckSlot(p)
    \/ CaInsert(p)
    \/ CaReset(p)
    \/ AddBotMessage(p)

\* yes is sent twice, and the steps of the two turns interleave
NextYes ==
    \/ \E p \in Procs : turns < MaxYesTurns /\ StartTurn(p, "s1", TextYes)
    \/ \E p \in Procs : YesSteps(p)

SpecYes == InitYes /\ [][NextYes]_vars

BookedBy(sessionId) ==
    { id \in DOMAIN appointments : appointments[id].sessionId = sessionId }

\* C38: two yes messages of one session in Confirming, their steps
\* interleaved, insert at most one appointment for the session, also when the
\* date-time text of the dialogue could not be parsed
OneConfirmationOneAppointment ==
    Cardinality(BookedBy("s1")) <= 1

\* both turns have returned and each has inserted an appointment out of the
\* same confirmation, with no scheduled date
ConfirmationBookedTwice ==
    /\ \A p \in Procs : procs[p].pc = "done" /\ procs[p].inserted = 1
    /\ Cardinality(BookedBy("s1")) = 2
    /\ \A id \in BookedBy("s1") : appointments[id].scheduledDate = Null
\* ---- the commit that reports a failure ----

\* the turn said yes in Confirming and was answered that the appointment
\* could not be saved
CommitReportedFailure ==
    /\ CommitTurn
    /\ Turn.result = IssueSaving

\* C39: a commit turn that reports failure has inserted no appointment,
\* including when the store call that fails is the reset of bookingState
\* after the insert
ReportedFailureInsertedNothing ==
    CommitReportedFailure =>
        /\ Turn.inserted = 0
        /\ BookedBy(Turn.sessionId) = {}

\* the save of the reset failed after the insert: the turn answers that the
\* appointment could not be saved, the appointment is stored and the session
\* is still in Confirming
FailureReportedForStoredAppointment ==
    /\ CommitReportedFailure
    /\ Turn.failed = {"caReset"}
    /\ Turn.inserted = 1
    /\ BookedBy(Turn.sessionId) = {1}
    /\ appointments[1].status = "pending"
    /\ Persisted.status = CONFIRMING
\* ---- the end of the dialogue ----

MaxEndTurns == 6

\* the valid answers to the question of a state; in Confirming the answer is
\* yes
ValidAnswers(status) ==
    CASE status = COLLECTING_OWNER_NAME -> {TextBook, TextBob}
      [] status = COLLECTING_PET_NAME -> {TextBook, TextBob}
      [] status = COLLECTING_PHONE -> {TextPhone, TextDigits}
      [] status = COLLECTING_DATE_TIME -> {TextDate, TextLunch}
      [] status = CONFIRMING -> {TextYes}
      [] OTHER -> {}

\* the session is somewhere in its dialogue, nothing is booked
InitEnd ==
    /\ \E k \in 1..Len(Dialogue) : StoreIs(served(InitStore, "s1", SubSeq(Dialogue, 1, k)))
    /\ procs = [p \in Procs |-> IdleProc]
    /\ turns = 0
    /\ faults = 0

\* the user answers the question the session is at
Reply ==
    \E text \in ValidAnswers(StatusOf(conversations)) :
        turns < MaxEndTurns /\ ProcessMessage("s1", text)

\* somebody else books a slot with POST /appointments, once
OtherBooks ==
    \E data \in DirectRequests :
        turns < MaxEndTurns /\ nextId = 1 /\ CreateDirectAppointment(data)

NextEnd == Reply \/ OtherBooks

SpecEnd == InitEnd /\ [][NextEnd]_vars

\* the session asks a question and the server can take the answer: Reply is
\* enabled
TurnDue ==
    /\ ValidAnswers(StatusOf(conversations)) # {}
    /\ turns < MaxEndTurns
    /\ MayStartCreating(1)

\* a request is served while a turn is due: every Reply is such a step, and
\* the only other one is the single booking of somebody else
TurnTaken == TurnDue /\ turns' = turns + 1

\* the user goes on answering as long as the session asks
SpecEndFair == SpecEnd /\ WF_turns(TurnTaken)

AfterYes == run(Store, startTurn(Store, "s1", TextYes)).store

====
